---- MODULE Spec2Model ----
(***************************************************************************)
(* LiteratureSearch: the incremental fetch-and-deduplication flow          *)
(* (literature_flow.py) with the tasks it calls (modules/*.py) and the     *)
(* external collaborators it talks to: the PubMed result set, the Notion   *)
(* page store and the classification provider.                             *)
(*                                                                         *)
(* Text is modelled as a sequence of character codes, so that              *)
(* concatenation, slicing and comparison are what Python does.             *)
(***************************************************************************)
EXTENDS Integers, Sequences, FiniteSets, TLC

\* ------------------------------------------------------------------ bounds
MaxItems == 3        \* size of the exhaustively varied remote result sets
MaxTarget == 2       \* largest RETMAX of the exhaustively varied runs
MaxRuns == 2         \* flow runs in succession against the same store
MaxFaults == 1       \* failing responses the collaborators inject in all
MaxFaultPos == 2     \* a fault hits one of the first MaxFaultPos items of a batch
MaxCount == 9        \* counts 0..MaxCount are handed to the validator

\* -------------------------------------------------------- program constants
NextPageSize == 50          \* current_fetch_size after the first page
max_pages == 30             \* page ceiling of the pagination loop
NotionTextLimit == 2000     \* truncate_for_notion(limit=2000)
TaskRetries == 2            \* @task(retries=2) on ai_enrich_records
HISTORICAL_MEDIAN == 500    \* get_config()["HISTORICAL_MEDIAN"]
GoldPmid == 36750562        \* first entry of get_config()["GOLD_SET"]
BiweeklyTarget == 25        \* biweekly_literature_search_flow(max_results=25)
max_retries == 5            \* make_session(max_retries=5)
status_forcelist == {429, 500, 502, 503, 504}

\* ------------------------------------------------------------------- text
Min(a, b) == IF a < b THEN a ELSE b

\* str(n) for a natural number: its decimal digits as character codes.
RECURSIVE Digits(_)
Digits(n) == IF n < 10 THEN <<48 + n>> ELSE Digits(n \div 10) \o <<48 + (n % 10)>>

\* The literal "PMID:".
PMID_PREFIX == <<80, 77, 73, 68, 58>>

\* text[:limit]
Prefix(text, limit) == SubSeq(text, 1, Min(limit, Len(text)))

\* notion_utils.truncate_for_notion
truncate_for_notion(text, limit) ==
    IF text = <<>> THEN <<>>
    ELSE IF Len(text) > limit THEN Prefix(text, limit) ELSE text

\* ----------------------------------------------------- input value domains
NoDoi == <<>>                                   \* no "doi" article id
DoiA == <<49, 48, 46, 49, 47, 97>>              \* "10.1/a"
DoiLong == [i \in 1..(NotionTextLimit + 1) |-> 97]   \* longer than Notion's limit
DoiLikePmid == PMID_PREFIX \o Digits(2)         \* the text "PMID:2"
GoldDoi == <<49, 48, 46, 49, 48, 51, 56>>       \* second GOLD_SET entry (a DOI)
DoiChoices == {NoDoi, DoiA, DoiLong, DoiLikePmid}

GOLD_SET == {Digits(GoldPmid), GoldDoi}

Providers == {"gemini", "openai"}

\* ------------------------------------------------------------------ state
VARIABLES
    \* the collaborators
    remote,                 \* PubMed result set of the query: sequence of summaries
    store,                  \* Notion database: DedupeKey text of page i (page id = i)
    quota,                  \* classification provider quota: "available" | "exhausted"
    \* the run
    cfg,                    \* get_config() of the run
    run,                    \* number of the flow run in progress
    pc,                     \* position of literature_search_flow
    outcome,                \* "running" | "returned" | "raised"
    faults,                 \* failing responses injected so far
    \* locals of literature_search_flow
    index, esearch_out, validation,
    new_pmids, update_pmids, all_esummary_results,
    current_retstart, current_fetch_size, page_count, broke,
    abstracts_map, records, to_create, to_update_final, enriched_new,
    \* the enrichment task
    attempt,                \* executions of the enrichment task so far
    calls,                  \* classification calls issued in this run, in order
    \* the writer
    requests,               \* create-page / update-page requests issued in this run
    create_res, update_res, \* the counts the writer tasks returned
    created_before,         \* uids whose create-page request succeeded in earlier runs
    clean_before,           \* every earlier run completed without a failing response
    \* one record followed from the fetchers to the writer's payload
    esummary_json,          \* its eSummary entries (the record and a neighbour)
    efetch_data,            \* its eFetch entry, or none
    parsed,                 \* the classification answer for it, or none
    record,                 \* the unified record dictionaries
    props,                  \* build_notion_page_properties of the first record
    \* the inputs of the enrichment task followed through the provider's text
    raw_json,               \* per record, the text each of its calls is answered with
    pmc_fulltext_map,       \* fetch_pmc_fulltext's result: PMID -> entry
    pmc_answers,            \* PubMed Central's answer to each full-text batch
    \* the process environment
    environ,                \* os.environ: the credentials and the provider's name
    \* the biweekly deployment
    biweekly                \* ISO week of today, attempts made, status returned

vars == <<remote, store, quota, cfg, run, pc, outcome, faults,
          index, esearch_out, validation,
          new_pmids, update_pmids, all_esummary_results,
          current_retstart, current_fetch_size, page_count, broke,
          abstracts_map, records, to_create, to_update_final, enriched_new,
          attempt, calls, requests, create_res, update_res,
          created_before, clean_before,
          esummary_json, efetch_data, parsed, record, props,
          raw_json, pmc_fulltext_map, pmc_answers, environ, biweekly>>

\* ------------------------------------------------------ PubMed result set
\* One eSummary entry: the uid and the value of its first "doi" article id.
Summary(n, doi) == [uid |-> Digits(n), doi |-> doi]

\* pubmed_esearch: total count and the first RETMAX ids of the result set.
pubmed_esearch(c, rem) ==
    [count |-> Len(rem),
     ids |-> [i \in 1..Min(c.RETMAX, Len(rem)) |-> rem[i].uid]]

\* pubmed_esummary_history: the page of batch_size summaries at start_offset.
pubmed_esummary_history(rem, batch_size, start_offset) ==
    SubSeq(rem, start_offset + 1, Min(start_offset + batch_size, Len(rem)))

\* ------------------------------------------------------------ validation
\* Variant of validate_results without the jump threshold.
validate_results_no_jump(eo, c) ==
    LET found_gold == \E i \in DOMAIN eo.ids : eo.ids[i] \in c.GOLD_SET
        gold_missing == (c.GOLD_SET # {}) /\ ~found_gold
        alert == eo.count = 0 \/ 2 * eo.count < c.HISTORICAL_MEDIAN \/ gold_missing
    IN [count |-> eo.count, ids |-> eo.ids, goldMissing |-> gold_missing,
        status |-> IF alert THEN "ALERT" ELSE "OK"]

\* validation_tasks.validate_results
validate_results(eo, c) ==
    LET count == eo.count
        ids == eo.ids
        gold_set == c.GOLD_SET
        found_gold == \E i \in DOMAIN ids : ids[i] \in gold_set
        gold_missing == (gold_set # {}) /\ ~found_gold
        alert == \/ count = 0
                 \/ 2 * count < c.HISTORICAL_MEDIAN     \* count < median * 0.5
                 \/ count > c.HISTORICAL_MEDIAN * 2
                 \/ gold_missing
    IN [count |-> count, ids |-> ids, goldMissing |-> gold_missing,
        status |-> IF alert THEN "ALERT" ELSE "OK"]

\* Variants of stop_after_search: never stopping; stopping on an ALERT too.
stop_never(v) == FALSE
stop_on_alert(v) == v.count = 0 \/ v.status = "ALERT"

\* literature_flow: "if count == 0: return" right after validation.
stop_after_search(v) == v.count = 0

\* --------------------------------------------------------- the index
\* The store's answer to one database query (notion_tasks.py 28-30): the pages
\* from the cursor on, at most size of them, has_more and next_cursor.
query_database(pages, cursor, size) ==
    [results |-> {i \in DOMAIN pages : cursor <= i /\ i < cursor + size},
     has_more |-> cursor + size <= Len(pages),
     next_cursor |-> cursor + size]

\* The pages of one answer entered into the index (lines 31-37): a page with a
\* non-empty DedupeKey text is entered under that text, a later page
\* overwriting an earlier one.
index_with(idx, pages, results) ==
    LET texts == {pages[i] : i \in results} \ {<<>>}
        last(t) == LET at == {i \in results : pages[i] = t}
                   IN CHOOSE i \in at : \A j \in at : j <= i
    IN [t \in DOMAIN idx \cup texts |-> IF t \in texts THEN last(t) ELSE idx[t]]

\* Variant of build_index_from: the first answer only, has_more is not read.
build_index_first_answer(pages, cursor, size, idx) ==
    index_with(idx, pages, query_database(pages, cursor, size).results)

\* The while has_more loop (lines 27-39), from the cursor on.
RECURSIVE build_index_from(_, _, _, _)
build_index_from(pages, cursor, size, idx) ==
    LET data == query_database(pages, cursor, size)
        filled == index_with(idx, pages, data.results)
    IN IF data.has_more THEN build_index_from(pages, data.next_cursor, size, filled)
       ELSE filled

\* notion_tasks.notion_build_index: without token or database id the index
\* is empty and nothing is queried; otherwise the store is queried until it
\* answers has_more false. size is the number of pages the store puts in
\* one answer.
notion_build_index(c, pages, size) ==
    IF c.NOTION_TOKEN = <<>> \/ c.NOTION_DB_ID = <<>> THEN <<>>
    ELSE build_index_from(pages, 1, size, <<>>)

\* The answer sizes of the store (at most 100 pages an answer), and the
\* number of queries followed in one build of the index.
QueryPageSizes == {1, 2, 100}
MaxQueries == 20

\* ------------------------------------------------------- the controller
\* literature_flow: key = doi if doi else f"PMID:{pmid}"
provisional_key(rec) == IF rec.doi # <<>> THEN rec.doi ELSE PMID_PREFIX \o rec.uid

\* Variant of in_index: the key is prefixed once more before the lookup.
in_index_prefixed(key, idx) == (PMID_PREFIX \o key) \in DOMAIN idx

\* literature_flow: "if key in index"
in_index(key, idx) == key \in DOMAIN idx

\* Variant of loop_cond: the loop stops as soon as any new item was found.
loop_cond_any_new(new, target, retstart, count, pages) ==
    Len(new) = 0 /\ 0 < target /\ retstart < count /\ pages < max_pages

\* Variant of loop_cond: the page ceiling is not consulted.
loop_cond_no_ceiling(new, target, retstart, count, pages) ==
    Len(new) < target /\ retstart < count

\* Variant of this_batch_size: the fetch size is not clamped.
this_batch_size_unclamped(fetch_size, count, retstart) == fetch_size

\* literature_flow: this_batch_size, the fetch size clamped to what is left of
\* the result set.
this_batch_size(fetch_size, count, retstart) == Min(fetch_size, count - retstart)

\* literature_flow: the while condition of the pagination loop.
loop_cond(new, target, retstart, count, pages) ==
    Len(new) < target /\ retstart < count /\ pages < max_pages

\* Variant of batch_new: every uid of the page, indexed or not.
batch_new_unfiltered(page, idx) == [i \in DOMAIN page |-> page[i].uid]

\* literature_flow: batch_new of one page, in page order.
batch_new(page, idx) ==
    LET fresh == SelectSeq(page, LAMBDA rec : ~in_index(provisional_key(rec), idx))
    IN [i \in DOMAIN fresh |-> fresh[i].uid]

\* literature_flow: batch_update of one page, in page order.
batch_update(page, idx) ==
    LET seen == SelectSeq(page, LAMBDA rec : in_index(provisional_key(rec), idx))
    IN [i \in DOMAIN seen |->
           [PMID |-> seen[i].uid, DedupeKey |-> provisional_key(seen[i]),
            page_id |-> idx[provisional_key(seen[i])]]]

\* Variant of trim: the list is left as accumulated.
trim_none(new, target) == new

\* literature_flow: new_pmids = new_pmids[:target_new_count]
trim(new, target) ==
    IF target >= 0 THEN SubSeq(new, 1, Min(target, Len(new)))
    ELSE SubSeq(new, 1, Len(new) + target)

\* ----------------------------------------------------------- normalization
\* Variant of normalize_one: the DedupeKey is always built from the PMID.
normalize_one_pmid_key(rec) ==
    [PMID |-> rec.uid, DOI |-> rec.doi, DedupeKey |-> PMID_PREFIX \o rec.uid,
     page_id |-> 0, enriched |-> FALSE]

\* normalization.normalize_records, one eSummary entry: DedupeKey is
\* rec.get("DOI") or f"PMID:{pmid}"; page_id 0 stands for "no page_id key".
normalize_one(rec) ==
    [PMID |-> rec.uid, DOI |-> rec.doi,
     DedupeKey |-> IF rec.doi # <<>> THEN rec.doi ELSE PMID_PREFIX \o rec.uid,
     page_id |-> 0, enriched |-> FALSE]

\* normalization.normalize_records over the accumulated summaries (insertion
\* order of the dict; the uids of a result set are distinct).
normalize_records(summaries) == [i \in DOMAIN summaries |-> normalize_one(summaries[i])]

\* Variant of route: whatever is not an existing item is created.
route_else_create(pmid, update_ids, new) ==
    IF pmid \in update_ids THEN "update" ELSE "create"

\* literature_flow step 6: where one normalized record goes.
route(pmid, update_ids, new) ==
    IF pmid \in update_ids THEN "update"
    ELSE IF \E i \in DOMAIN new : new[i] = pmid THEN "create"
    ELSE "skip"

\* literature_flow step 6: to_create.
split_create(recs, updates, new) ==
    LET update_ids == {updates[i].PMID : i \in DOMAIN updates}
    IN SelectSeq(recs, LAMBDA r : route(r.PMID, update_ids, new) = "create")

\* literature_flow step 6: to_update_final, each record with its page_id.
split_update(recs, updates, new) ==
    LET update_ids == {updates[i].PMID : i \in DOMAIN updates}
        page_of(pmid) == LET at == {i \in DOMAIN updates : updates[i].PMID = pmid}
                         IN updates[CHOOSE i \in at : \A j \in at : j <= i].page_id
        hit == SelectSeq(recs, LAMBDA r : route(r.PMID, update_ids, new) = "update")
    IN [i \in DOMAIN hit |-> [hit[i] EXCEPT !.page_id = page_of(hit[i].PMID)]]

\* ------------------------------------------------------------- enrichment
\* What one classification call does: it raises, or it returns the parsed
\* answer (the keys the escalation check reads; <<>> is the empty dictionary).
Raises(e) == [raises |-> e, parsed |-> <<>>]
Returns(p) == [raises |-> "none", parsed |-> p]
Failed(a) == a.raises # "none"

ANALYSIS_FAILED == <<65, 110, 97, 108, 121, 115, 105, 115, 32, 102, 97, 105, 108, 101, 100, 32, 111, 114, 32, 114, 101, 116, 117, 114, 110, 101, 100, 32, 101, 109, 112, 116, 121, 46>>
Answer(score, why) == [RelevanceScore |-> score, WhyRelevant |-> why]

DEFAULT_MODEL == "gpt-5-nano"
ESCALATION_MODEL == "gpt-5-mini"

Call(pmid, model, a) ==
    [PMID |-> pmid, model |-> model,
     result |-> IF Failed(a) THEN a.raises ELSE "ok", parsed |-> a.parsed]

\* rel_score = parsed.get("RelevanceScore", 0)
rel_score(p) == IF "RelevanceScore" \in DOMAIN p THEN p.RelevanceScore ELSE 0

\* The escalation check of the default model's answer (lines 390-401).
needs_escalation(p) ==
    \/ 70 <= rel_score(p) /\ rel_score(p) <= 80
    \/ DOMAIN p = {}
    \/ "WhyRelevant" \in DOMAIN p /\ p.WhyRelevant = ANALYSIS_FAILED

\* What the calls of one record end with: the accepted answer or the exception.
Accepted(calls_made, a) ==
    [calls |-> calls_made, result |-> IF Failed(a) THEN a.raises ELSE "ok",
     parsed |-> a.parsed]

\* Variant of classify_one: the default model's answer is never escalated.
classify_one_no_escalation(pmid, provider, r) ==
    IF provider = "gemini"
    THEN Accepted(<<Call(pmid, "gemini-2.5-flash", r[1])>>, r[1])
    ELSE LET first == Call(pmid, DEFAULT_MODEL, r[1])
             third == Call(pmid, ESCALATION_MODEL, r[3])
         IN IF Failed(r[1]) THEN Accepted(<<first, third>>, r[3])
            ELSE Accepted(<<first>>, r[1])

\* Variant of classify_one: a failure of the default model is not caught.
classify_one_no_fallback(pmid, provider, r) ==
    IF provider = "gemini"
    THEN Accepted(<<Call(pmid, "gemini-2.5-flash", r[1])>>, r[1])
    ELSE LET first == Call(pmid, DEFAULT_MODEL, r[1])
             second == Call(pmid, ESCALATION_MODEL, r[2])
         IN IF Failed(r[1]) THEN Accepted(<<first>>, r[1])
            ELSE IF needs_escalation(r[1].parsed) THEN Accepted(<<first, second>>, r[2])
            ELSE Accepted(<<first>>, r[1])

\* enrichment.ai_enrich_records, the provider calls of one record (lines 381-413).
\* r[1] is what the default-model call does, r[2] the escalation call made by
\* the escalation check, r[3] the escalation call made by the except clause,
\* which also catches a failure of the call r[2].
classify_one(pmid, provider, r) ==
    IF provider = "gemini"
    THEN Accepted(<<Call(pmid, "gemini-2.5-flash", r[1])>>, r[1])
    ELSE LET first == Call(pmid, DEFAULT_MODEL, r[1])
             second == Call(pmid, ESCALATION_MODEL, r[2])
             third == Call(pmid, ESCALATION_MODEL, r[3])
         IN IF Failed(r[1]) THEN Accepted(<<first, third>>, r[3])
            ELSE IF needs_escalation(r[1].parsed)
                 THEN IF Failed(r[2])
                      THEN Accepted(<<first, second, third>>, r[3])
                      ELSE Accepted(<<first, second>>, r[2])
            ELSE Accepted(<<first>>, r[1])

\* enrichment.ai_enrich_records, the loop over the records from record i on:
\* a record whose classification raises ends the task; the others are updated
\* in place and appended to the result. parsed holds the accepted answer of
\* each appended record.
RECURSIVE enrich_from(_, _, _, _, _)
enrich_from(recs, provider, script, i, acc) ==
    IF i > Len(recs) THEN [acc EXCEPT !.raised = "none"]
    ELSE LET one == classify_one(acc.records[i].PMID, provider, script[i])
             called == [acc EXCEPT !.calls = acc.calls \o one.calls]
         IN IF one.result # "ok"
            THEN [called EXCEPT !.raised = one.result]
            ELSE enrich_from(recs, provider, script, i + 1,
                     [called EXCEPT !.enriched = Append(acc.enriched, [recs[i] EXCEPT !.enriched = TRUE]),
                                    !.parsed = Append(acc.parsed, one.parsed),
                                    !.records = [acc.records EXCEPT ![i].enriched = TRUE]])

\* The provider's key is set in the environment (lines 287-296).
has_api_key(env, provider) ==
    IF provider = "gemini" THEN env.GOOGLE_API_KEY # <<>> ELSE env.OPENAI_API_KEY # <<>>

\* enrichment.ai_enrich_records: without the provider's key the records are
\* returned as they came and no call is made.
ai_enrich_records(recs, env, provider, script) ==
    IF ~has_api_key(env, provider)
    THEN [calls |-> <<>>, raised |-> "none", enriched |-> recs,
          parsed |-> <<>>, records |-> recs]
    ELSE enrich_from(recs, provider, script, 1,
                     [calls |-> <<>>, raised |-> "none", enriched |-> <<>>,
                      parsed |-> <<>>, records |-> recs])

\* ------------------------------------------------------ the unified record
\* A record dictionary is a function from its keys to their values; a text
\* value is a sequence of character codes, and None is written like "": the
\* empty sequence (the code tests these values for truth only).
SPACE == <<32>>
SEMICOLON == <<59>>
COMMA == <<44>>

\* record.get(key)
Get(rec, key) == IF key \in DOMAIN rec THEN rec[key] ELSE <<>>

\* str.strip(), for blanks
RECURSIVE strip(_)
strip(t) ==
    IF t = <<>> THEN t
    ELSE IF Head(t) = SPACE[1] THEN strip(Tail(t))
    ELSE IF t[Len(t)] = SPACE[1] THEN strip(SubSeq(t, 1, Len(t) - 1))
    ELSE t

\* str.split(sep) for a one-character separator
RECURSIVE split(_, _)
split(t, sep) ==
    IF \A i \in DOMAIN t : t[i] # sep[1] THEN <<t>>
    ELSE LET k == CHOOSE i \in DOMAIN t : t[i] = sep[1] /\ \A j \in 1..(i - 1) : t[j] # sep[1]
         IN <<SubSeq(t, 1, k - 1)>> \o split(SubSeq(t, k + 1, Len(t)), sep)

\* str.replace(old, new) for a one-character old
RECURSIVE replace(_, _, _)
replace(t, old, new) ==
    IF t = <<>> THEN <<>>
    ELSE (IF Head(t) = old[1] THEN new ELSE <<Head(t)>>) \o replace(Tail(t), old, new)

\* [t.strip().replace(",", " -") for t in parts if t.strip()]
select_names(parts) ==
    LET kept == SelectSeq(parts, LAMBDA t : strip(t) # <<>>)
    IN [i \in DOMAIN kept |-> replace(strip(kept[i]), COMMA, SPACE \o <<45>>)]

UrlPrefix == <<104, 116, 116, 112, 115, 58, 47, 47, 112, 117, 98, 109, 101, 100, 46, 110, 99, 98, 105, 46, 110, 108, 109, 46, 110, 105, 104, 46, 103, 111, 118, 47>>     \* "https://pubmed.ncbi.nlm.nih.gov/"
SLASH == <<47>>

\* One eSummary entry of the followed record: uid, title and the other
\* descriptive fields (journal, pubdate, authors, pubtype), doi article id.
SummaryEntry(n, title, doi) ==
    [uid |-> Digits(n), title |-> title, fulljournalname |-> title,
     pubdate |-> title, authors |-> title, pubtype |-> title, doi |-> doi]

\* normalization.normalize_records, the record made of one eSummary entry
\* (lines 15-64).
summary_record(e) ==
    [PMID |-> e.uid, Title |-> e.title, Journal |-> e.fulljournalname,
     PubDate |-> e.pubdate, PubDateParsed |-> e.pubdate, DOI |-> e.doi,
     URL |-> UrlPrefix \o e.uid \o SLASH, Abstract |-> <<>>, Authors |-> e.authors,
     GEO_List |-> <<>>, SRA_Project |-> <<>>, MeshHeadingList |-> <<>>,
     MeSH_Terms |-> <<>>, Major_MeSH |-> <<>>, PublicationTypes |-> e.pubtype]

\* normalization.normalize_records, the eFetch entry of the same pmid merged
\* in (lines 98-105): the abstract and the extras, nothing else.
merge_efetch(r, entry) ==
    [r EXCEPT !.Abstract = entry.Abstract, !.GEO_List = entry.GEO_List,
              !.SRA_Project = entry.SRA_Project,
              !.MeshHeadingList = entry.MeshHeadingList,
              !.MeSH_Terms = entry.MeSH_Terms, !.Major_MeSH = entry.Major_MeSH]

\* normalization.normalize_records lines 108-110:
\* rec["DedupeKey"] = rec.get("DOI") or f"PMID:{pmid}"
with_dedupe_key(r) ==
    [k \in DOMAIN r \cup {"DedupeKey"} |->
        IF k = "DedupeKey"
        THEN (IF Get(r, "DOI") # <<>> THEN r.DOI ELSE PMID_PREFIX \o r.PMID)
        ELSE r[k]]

\* normalization.normalize_records for the followed record and its neighbour;
\* efetch is the eFetch entry of the first one, or <<>>.
normalize_merged(entries, efetch) ==
    [i \in DOMAIN entries |->
        with_dedupe_key(
            IF i = 1 /\ efetch # <<>>
            THEN merge_efetch(summary_record(entries[i]), efetch)
            ELSE summary_record(entries[i]))]

\* enrichment.ai_enrich_records lines 499-511: rec.update({...})
rec_update(r, fields) == fields @@ r

\* {"rich_text": [{"text": {"content": truncate_for_notion(text)}}] if text else []}
rich_text(text) ==
    [rich_text |-> IF text # <<>> THEN <<truncate_for_notion(text, NotionTextLimit)>>
                   ELSE <<>>]

\* {"multi_select": [{"name": t} for t in names]}
multi_select(names) == [multi_select |-> names]

UNTITLED == <<85, 110, 116, 105, 116, 108, 101, 100>>     \* "Untitled"

\* The properties of lines 57-71 and 73-74, before the enrichment fields.
base_props(r) ==
    LET title == IF Get(r, "Title") # <<>> THEN r.Title ELSE Get(r, "PMID")
        mesh_terms_list == IF Get(r, "MeSH_Terms") # <<>>
                           THEN select_names(split(r.MeSH_Terms, SEMICOLON)) ELSE <<>>
        major_mesh_list == IF Get(r, "Major_MeSH") # <<>>
                           THEN select_names(split(r.Major_MeSH, SEMICOLON)) ELSE <<>>
        names == {"Title", "DOI", "PMID", "URL", "Journal", "Abstract", "Authors",
                  "MeshHeadingList", "MeSH_Terms", "Major_MeSH", "DedupeKey",
                  "LastChecked", "PublicationTypes"}
                 \cup (IF Get(r, "PubDateParsed") # <<>> THEN {"PubDate"} ELSE {})
    IN [k \in names |->
          CASE k = "Title" -> [title |-> <<IF title # <<>> THEN title ELSE UNTITLED>>]
            [] k = "URL" -> [url |-> Get(r, "URL")]
            [] k = "MeSH_Terms" -> multi_select(mesh_terms_list)
            [] k = "Major_MeSH" -> multi_select(major_mesh_list)
            [] k = "DedupeKey" ->
                 [rich_text |-> <<truncate_for_notion(Get(r, "DedupeKey"), NotionTextLimit)>>]
            [] k = "LastChecked" -> [date |-> <<>>]
            [] k = "PubDate" -> [date |-> r.PubDateParsed]
            [] OTHER -> rich_text(Get(r, k))]

\* The text fields of lines 88-109, written when present and not empty.
OptionalTextProps ==
    {"StudySummary", "WhyRelevant", "Methods", "KeyFindings", "GEO_List", "SRA_Project"}

\* record["DataTypes"].replace(";", ",").split(","), stripped (line 101)
data_types_list(text) == select_names(split(replace(text, SEMICOLON, COMMA), COMMA))

\* The properties of lines 79-109.
conditional_props(r) ==
    LET names == ({"RelevanceScore", "PipelineConfidence", "FullTextUsed"} \cap DOMAIN r)
                 \cup {k \in OptionalTextProps : Get(r, k) # <<>>}
                 \cup (IF Get(r, "DataTypes") # <<>> /\ data_types_list(r.DataTypes) # <<>>
                       THEN {"DataTypes"} ELSE {})
    IN [k \in names |->
          CASE k = "RelevanceScore" -> [number |-> r.RelevanceScore]
            [] k = "PipelineConfidence" -> multi_select(<<r.PipelineConfidence>>)
            [] k = "FullTextUsed" -> [checkbox |-> r.FullTextUsed]
            [] k = "DataTypes" -> multi_select(data_types_list(r.DataTypes))
            [] OTHER -> [rich_text |-> <<truncate_for_notion(r[k], NotionTextLimit)>>]]

\* Lines 111-115: an empty rich_text block is removed.
is_empty_rich_text(v) == "rich_text" \in DOMAIN v /\ v.rich_text = <<>>

\* Variant of build_notion_page_properties: a missing RelevanceScore is written
\* as 0.
build_notion_page_properties_defaults(r) ==
    LET all == conditional_props([RelevanceScore |-> 0] @@ r) @@ base_props(r)
    IN [k \in {n \in DOMAIN all : ~is_empty_rich_text(all[n])} |->
           IF k = "RelevanceScore" THEN [number |-> Get(r, k)] ELSE all[k]]

\* notion_utils.build_notion_page_properties
build_notion_page_properties(r) ==
    LET all == conditional_props(r) @@ base_props(r)
    IN [k \in {n \in DOMAIN all : ~is_empty_rich_text(all[n])} |-> all[k]]

\* Values of the followed record's fields.
DoiBlank == SPACE                              \* a doi article id of one blank
RecordDois == {NoDoi, DoiA, DoiBlank, DoiLikePmid}
SampleText == <<120>>                              \* "x"
MeshText == <<80, 114, 111, 115, 116, 97, 116, 101, 59, 32, 78, 101, 111, 112, 108, 97, 115, 109, 115, 44, 32, 77, 97, 108, 101>>                 \* "Prostate; Neoplasms, Male"
GroupText == <<68, 111, 101, 32, 76, 97, 98>>     \* "Doe Lab"
TypesText == <<118, 105, 115, 105, 117, 109, 44, 32, 115, 99, 114, 110, 97, 45, 115, 101, 113>>     \* "visium, scrna-seq"
ConfidenceHigh == <<72, 105, 103, 104>>                 \* "High"
ConfidenceMedium == <<77, 101, 100, 105, 117, 109>>  \* "Medium"
ConfidenceLow == <<76, 111, 119>>                       \* "Low"

\* Entries of pubmed_efetch_abstracts_by_ids (lines 121-130); doi is the doi
\* ArticleId inside ArticleXML.
EfetchEntries ==
    {[Abstract |-> a, GEO_List |-> a, SRA_Project |-> a, MeshHeadingList |-> m,
      MeSH_Terms |-> m, Major_MeSH |-> m, doi |-> d] :
        a \in {<<>>, SampleText}, m \in {<<>>, MeshText}, d \in {NoDoi, DoiA}}

\* The dictionaries handed to rec.update (enrichment.py:499-511).
EnrichmentFields ==
    {[RelevanceScore |-> s, WhyRelevant |-> SampleText, StudySummary |-> t,
      Methods |-> t, KeyFindings |-> t, DataTypes |-> d, Group |-> g,
      PipelineConfidence |-> IF f THEN ConfidenceHigh
                             ELSE IF s >= 80 THEN ConfidenceMedium ELSE ConfidenceLow,
      FullTextUsed |-> f] :
        s \in {0, 90}, t \in {<<>>, SampleText}, d \in {<<>>, TypesText},
        g \in {<<>>, GroupText}, f \in BOOLEAN}

\* The dictionary of a record of the flow: normalize_records' keys, and the
\* enrichment keys once ai_enrich_records has updated it.
flow_record(r) ==
    LET base == with_dedupe_key(summary_record(
                    [uid |-> r.PMID, title |-> SampleText, fulljournalname |-> SampleText,
                     pubdate |-> SampleText, authors |-> SampleText,
                     pubtype |-> SampleText, doi |-> r.DOI]))
    IN IF r.enriched
       THEN rec_update(base, CHOOSE f \in EnrichmentFields :
                                 f.RelevanceScore = 90 /\ f.FullTextUsed
                                 /\ f.StudySummary # <<>> /\ f.DataTypes # <<>>
                                 /\ f.Group # <<>>)
       ELSE base

\* ------------------------------------------------- the provider's response
\* Characters of the response text.
WHITESPACE == {9, 10, 13, 32}
QUOTE == <<34>>
BACKSLASH == <<92>>
LBRACE == <<123>>
RBRACE == <<125>>
COLON == <<58>>
ZERO == <<48>>
FENCE == <<96, 96, 96>>                 \* "```"
FENCE_JSON == <<96, 96, 96, 106, 115, 111, 110>>        \* "```json"

\* str.startswith / str.endswith / str.count / str.find for one character
startswith(t, pre) == Len(t) >= Len(pre) /\ SubSeq(t, 1, Len(pre)) = pre
endswith(t, suf) == Len(t) >= Len(suf) /\ SubSeq(t, Len(t) - Len(suf) + 1, Len(t)) = suf
count(t, ch) == Cardinality({i \in DOMAIN t : t[i] = ch[1]})
find(t, ch, from) ==
    IF \E i \in from..Len(t) : t[i] = ch[1]
    THEN CHOOSE i \in from..Len(t) : t[i] = ch[1] /\ \A j \in from..(i - 1) : t[j] # ch[1]
    ELSE 0

\* str.strip(), for every white space
text_strip(t) ==
    LET inked == {i \in DOMAIN t : t[i] \notin WHITESPACE}
    IN IF inked = {} THEN <<>>
       ELSE SubSeq(t, CHOOSE i \in inked : \A j \in inked : i <= j,
                      CHOOSE i \in inked : \A j \in inked : j <= i)

\* ch * n
repeat(ch, n) == [i \in 1..n |-> ch[1]]

\* json.loads: objects, strings and natural numbers. A parse step gives ok,
\* the position after the value, the value and its kind; a dictionary is a
\* function from key texts to values.
NoParse == [ok |-> FALSE, next |-> 0, val |-> <<>>, kind |-> "none"]

\* the first position from i on that holds no white space
skip_ws(t, i) ==
    LET inked == {j \in i..Len(t) : t[j] \notin WHITESPACE}
    IN IF i > Len(t) THEN i
       ELSE IF inked = {} THEN Len(t) + 1
       ELSE CHOOSE j \in inked : \A k \in inked : j <= k

\* the characters of a string from position i on, up to its closing quote:
\* the scan goes to the first quote, backslash or control character; the
\* escapes \" \\ \/ are read, a control character or another escape is an
\* error
RECURSIVE scan_string(_, _, _)
scan_string(t, i, acc) ==
    LET marks == {k \in i..Len(t) : t[k] = QUOTE[1] \/ t[k] = BACKSLASH[1] \/ t[k] < 32}
        k == CHOOSE m \in marks : \A j \in marks : m <= j
        plain == acc \o SubSeq(t, i, k - 1)
    IN IF marks = {} THEN NoParse
       ELSE IF t[k] = QUOTE[1]
       THEN [ok |-> TRUE, next |-> k + 1, val |-> plain, kind |-> "str"]
       ELSE IF t[k] = BACKSLASH[1] /\ k + 1 <= Len(t)
               /\ t[k + 1] \in {QUOTE[1], BACKSLASH[1], 47}
       THEN scan_string(t, k + 2, Append(plain, t[k + 1]))
       ELSE NoParse

IsDigit(c) == 48 <= c /\ c <= 57

RECURSIVE scan_digits(_, _, _)
scan_digits(t, i, acc) ==
    IF i <= Len(t) /\ IsDigit(t[i]) THEN scan_digits(t, i + 1, acc * 10 + (t[i] - 48))
    ELSE [ok |-> TRUE, next |-> i, val |-> acc, kind |-> "int"]

scan_number(t, i) ==
    IF t[i] = ZERO[1] THEN [ok |-> TRUE, next |-> i + 1, val |-> 0, kind |-> "int"]
    ELSE scan_digits(t, i, 0)

RECURSIVE parse_value(_, _)
RECURSIVE parse_members(_, _, _)

\* acc[key] = v
with_member(acc, key, v) ==
    [k \in DOMAIN acc \cup {key} |-> IF k = key THEN [val |-> v.val, kind |-> v.kind] ELSE acc[k]]

\* after a member, at position after: a comma and the next member, or the
\* closing brace
members_next(t, dict, after) ==
    IF after > Len(t) THEN NoParse
    ELSE IF t[after] = COMMA[1] THEN parse_members(t, skip_ws(t, after + 1), dict)
    ELSE IF t[after] = RBRACE[1]
    THEN [ok |-> TRUE, next |-> after + 1, val |-> dict, kind |-> "dict"]
    ELSE NoParse

\* the member's value v was read
members_value(t, acc, key, v) ==
    IF ~v.ok THEN NoParse
    ELSE members_next(t, with_member(acc, key.val, v), skip_ws(t, v.next))

\* the member's key was read, the colon is expected at position colon
members_colon(t, acc, key, colon) ==
    IF colon > Len(t) \/ t[colon] # COLON[1] THEN NoParse
    ELSE members_value(t, acc, key, parse_value(t, skip_ws(t, colon + 1)))

members_key(t, acc, key) ==
    IF ~key.ok THEN NoParse ELSE members_colon(t, acc, key, skip_ws(t, key.next))

\* the members of an object from the key at position i on
parse_members(t, i, acc) ==
    IF i > Len(t) \/ t[i] # QUOTE[1] THEN NoParse
    ELSE members_key(t, acc, scan_string(t, i + 1, <<>>))

\* an object from the position j after its opening brace on
parse_object(t, j) ==
    IF j <= Len(t) /\ t[j] = RBRACE[1]
    THEN [ok |-> TRUE, next |-> j + 1, val |-> <<>>, kind |-> "dict"]
    ELSE parse_members(t, j, <<>>)

parse_value(t, i) ==
    IF i > Len(t) THEN NoParse
    ELSE IF t[i] = QUOTE[1] THEN scan_string(t, i + 1, <<>>)
    ELSE IF IsDigit(t[i]) THEN scan_number(t, i)
    ELSE IF t[i] = LBRACE[1] THEN parse_object(t, skip_ws(t, i + 1))
    ELSE NoParse

\* the value v is the whole text but for white space
whole_text(t, v) == IF v.ok /\ skip_ws(t, v.next) = Len(t) + 1 THEN v ELSE NoParse

\* json.loads(t): the value, or ok = FALSE for json.JSONDecodeError
json_loads(t) == whole_text(t, parse_value(t, skip_ws(t, 1)))

\* enrichment._extract_json_text, from the text of the response on
\* (lines 49, 60-66)
extract_json_text(text) ==
    LET raw == text_strip(text)
        head == IF startswith(raw, FENCE_JSON)
                THEN text_strip(SubSeq(raw, Len(FENCE_JSON) + 1, Len(raw)))
                ELSE IF startswith(raw, FENCE)
                THEN text_strip(SubSeq(raw, Len(FENCE) + 1, Len(raw)))
                ELSE raw
    IN IF endswith(head, FENCE)
       THEN text_strip(SubSeq(head, 1, Len(head) - Len(FENCE)))
       ELSE head

\* re.search(r"\{.*?\}", raw, re.DOTALL): from the first "{" to the first "}"
\* after it; <<>> when there is no match
first_object(raw) ==
    LET open == find(raw, LBRACE, 1)
        close == IF open = 0 THEN 0 ELSE find(raw, RBRACE, open + 1)
    IN IF close = 0 THEN <<>> ELSE SubSeq(raw, open, close)

\* the balanced-brace scan (lines 94-106): the position where the count of
\* braces from start_idx on returns to 0, or 0
balanced_end(raw, i, brace_count) ==
    LET n(k) == brace_count + Cardinality({j \in i..k : raw[j] = LBRACE[1]})
                            - Cardinality({j \in i..k : raw[j] = RBRACE[1]})
        ends == {k \in i..Len(raw) : raw[k] = RBRACE[1] /\ n(k) = 0}
    IN IF ends = {} THEN 0 ELSE CHOOSE k \in ends : \A j \in ends : k <= j

\* the truncation repair (lines 114-126): the repaired text
repaired_text(raw) ==
    LET stripped == text_strip(raw)
        quoted == IF count(stripped, QUOTE) % 2 = 1 THEN stripped \o QUOTE ELSE stripped
    IN quoted \o repeat(RBRACE, count(quoted, LBRACE) - count(quoted, RBRACE))

TRUNCATED == <<95, 95, 84, 82, 85, 78, 67, 65, 84, 69, 68, 95, 95>>    \* "__TRUNCATED__"

\* What _load_response_json ends with: the object returned and the stage
\* that produced it, or stage "ValueError".
Loaded(stage, v) == [stage |-> stage, val |-> v.val, kind |-> v.kind]

\* enrichment._load_response_json
load_response_json(raw) ==
    LET direct == json_loads(raw)
        salvaged == IF first_object(raw) = <<>> THEN NoParse
                    ELSE json_loads(first_object(raw))
        start_idx == find(raw, LBRACE, 1)
        stop == IF start_idx = 0 THEN 0 ELSE balanced_end(raw, start_idx, 0)
        balanced == IF stop = 0 THEN NoParse
                    ELSE json_loads(SubSeq(raw, start_idx, stop))
        repaired == IF endswith(text_strip(raw), RBRACE) THEN NoParse
                    ELSE json_loads(repaired_text(raw))
        marked == IF repaired.kind = "dict"
                  THEN [repaired EXCEPT !.val =
                           [k \in DOMAIN repaired.val \cup {TRUNCATED} |->
                               IF k = TRUNCATED THEN [val |-> TRUE, kind |-> "bool"]
                               ELSE repaired.val[k]]]
                  ELSE repaired
    IN IF raw = <<>> THEN Loaded("empty", [val |-> <<>>, kind |-> "dict"])
       ELSE IF direct.ok THEN Loaded("direct", direct)
       ELSE IF salvaged.ok THEN Loaded("first_object", salvaged)
       ELSE IF balanced.ok THEN Loaded("balanced", balanced)
       ELSE IF repaired.ok THEN Loaded("repair", marked)
       ELSE Loaded("ValueError", NoParse)

\* ------------------------------------------- the answer and its processing
\* The keys of the answer the task reads, as texts of the response.
KeyTexts ==
    ("RelevanceScore" :> <<82, 101, 108, 101, 118, 97, 110, 99, 101, 83, 99, 111, 114, 101>>) @@
    ("WhyRelevant" :> <<87, 104, 121, 82, 101, 108, 101, 118, 97, 110, 116>>) @@
    ("StudySummary" :> <<83, 116, 117, 100, 121, 83, 117, 109, 109, 97, 114, 121>>) @@
    ("Methods" :> <<77, 101, 116, 104, 111, 100, 115>>) @@
    ("KeyFindings" :> <<75, 101, 121, 70, 105, 110, 100, 105, 110, 103, 115>>) @@
    ("DataTypes" :> <<68, 97, 116, 97, 84, 121, 112, 101, 115>>) @@
    ("Group" :> <<71, 114, 111, 117, 112>>) @@
    ("__TRUNCATED__" :> <<95, 95, 84, 82, 85, 78, 67, 65, 84, 69, 68, 95, 95>>)

\* The object of the response as the dictionary the task reads.
to_record(d) ==
    [n \in {n \in DOMAIN KeyTexts : KeyTexts[n] \in DOMAIN d} |-> d[KeyTexts[n]].val]

\* enrichment._call_gemini_api from the text of the response on: what the call
\* does. An answer that is no object fails at the first parsed.pop / .get.
call_gemini_api(text) ==
    LET l == load_response_json(extract_json_text(text))
    IN IF l.stage = "ValueError" THEN Raises("ValueError")
       ELSE IF l.kind # "dict" THEN Raises("AttributeError")
       ELSE Returns(to_record(l.val))

\* enrichment._call_openai_api from message.content on: json.loads(raw_json)
call_openai_api(text) ==
    LET v == json_loads(text)
    IN IF ~v.ok THEN Raises("JSONDecodeError")
       ELSE IF v.kind # "dict" THEN Raises("AttributeError")
       ELSE Returns(to_record(v.val))

call_api(provider, text) ==
    IF provider = "gemini" THEN call_gemini_api(text) ELSE call_openai_api(text)

\* str.lower()
lower(t) == [i \in DOMAIN t |-> IF 65 <= t[i] /\ t[i] <= 90 THEN t[i] + 32 ELSE t[i]]

\* sub in t
contains(t, sub) ==
    \E i \in 1..(Len(t) - Len(sub) + 1) : SubSeq(t, i, i + Len(sub) - 1) = sub

\* sep.join(parts)
RECURSIVE join(_, _)
join(parts, sep) ==
    IF parts = <<>> THEN <<>>
    ELSE IF Len(parts) = 1 THEN parts[1]
    ELSE parts[1] \o sep \o join(Tail(parts), sep)

\* list(dict.fromkeys(items))
first_seen(items) ==
    SelectSeq([i \in DOMAIN items |-> [at |-> i, v |-> items[i]]],
              LAMBDA x : \A j \in 1..(x.at - 1) : items[j] # x.v)

\* KNOWN_DATA_TYPES in the order of the set literal (lines 305-329); the set
\* is iterated in an order the interpreter chooses.
KNOWN_DATA_TYPES ==
    <<<<115, 99, 114, 110, 97, 45, 115, 101, 113>>,
      <<115, 99, 97, 116, 97, 99, 45, 115, 101, 113>>,
      <<115, 99, 100, 110, 97>>,
      <<115, 112, 97, 116, 105, 97, 108, 32, 116, 114, 97, 110, 115, 99, 114, 105, 112, 116, 111, 109, 105, 99, 115>>,
      <<49, 48, 120, 32, 118, 105, 115, 105, 117, 109>>,
      <<120, 101, 110, 105, 117, 109>>,
      <<99, 111, 115, 109, 120>>,
      <<103, 101, 111, 109, 120>>,
      <<115, 108, 105, 100, 101, 45, 115, 101, 113>>,
      <<104, 38, 101>>,
      <<119, 103, 115>>,
      <<119, 101, 115>>,
      <<98, 117, 108, 107, 32, 114, 110, 97, 45, 115, 101, 113>>,
      <<99, 104, 105, 112, 45, 115, 101, 113>>,
      <<97, 116, 97, 99, 45, 115, 101, 113>>,
      <<99, 105, 116, 101, 45, 115, 101, 113>>,
      <<109, 117, 108, 116, 105, 111, 109, 101>>,
      <<109, 117, 108, 116, 105, 45, 111, 109, 105, 99, 115>>,
      <<99, 110, 118>>,
      <<115, 110, 114, 110, 97, 45, 115, 101, 113>>,
      <<115, 110, 97, 116, 97, 99, 45, 115, 101, 113>>,
      <<109, 101, 114, 102, 105, 115, 104>>,
      <<115, 101, 113, 102, 105, 115, 104>>>>

STRONG_KEYWORDS ==
    <<<<115, 112, 97, 116, 105, 97, 108>>,
      <<118, 105, 115, 105, 117, 109>>,
      <<120, 101, 110, 105, 117, 109>>,
      <<99, 111, 115, 109, 120>>,
      <<115, 99, 114, 110, 97>>,
      <<115, 110, 114, 110, 97>>,
      <<109, 117, 108, 116, 105, 111, 109, 101>>,
      <<109, 117, 108, 116, 105, 45, 111, 109, 105, 99, 115>>>>

TRCT_TITLE == <<116, 114, 99, 116, 45, 116, 105, 116, 108, 101, 58>>      \* "trct-title:"
RELEVANT == <<114, 101, 108, 101, 118, 97, 110, 116>>         \* "relevant"
NO_ABSTRACT == <<110, 111, 32, 97, 98, 115, 116, 114, 97, 99, 116>>    \* "no abstract"
ConfidenceAmbiguous == <<77, 101, 100, 105, 117, 109, 45, 65, 109, 98, 105, 103, 117, 111, 117, 115>>    \* "Medium-Ambiguous"

\* the title after the truncation mark (lines 433-436)
marked_title(title, p) ==
    IF "__TRUNCATED__" \in DOMAIN p /\ p["__TRUNCATED__"] = TRUE
    THEN IF startswith(title, TRCT_TITLE) THEN title
         ELSE IF title # <<>> THEN TRCT_TITLE \o SPACE \o title
         ELSE TRCT_TITLE
    ELSE title

\* parsed.pop("__TRUNCATED__") and the setdefault calls (lines 433-444)
with_defaults(p) ==
    [k \in {"RelevanceScore", "WhyRelevant", "StudySummary", "Methods",
            "KeyFindings", "DataTypes", "Group"} |->
        IF k \in DOMAIN p THEN p[k]
        ELSE IF k = "RelevanceScore" THEN 0
        ELSE IF k = "WhyRelevant" THEN ANALYSIS_FAILED
        ELSE <<>>]

\* one tag of DataTypes: the first term of the vocabulary, in the order it is
\* iterated, that the tag contains; the tag itself when there is none
normalized_type(dt, order) ==
    IF \E i \in DOMAIN order : contains(dt, order[i])
    THEN order[CHOOSE i \in DOMAIN order :
                   contains(dt, order[i]) /\ \A j \in 1..(i - 1) : ~contains(dt, order[j])]
    ELSE dt

\* parsed["DataTypes"] after the folding (lines 446-461)
normalized_data_types(text, order) ==
    LET parts == split(replace(text, SEMICOLON, COMMA), COMMA)
        kept == SelectSeq(parts, LAMBDA t : text_strip(t) # <<>>)
        raw_types == [i \in DOMAIN kept |-> lower(text_strip(kept[i]))]
        normalized_types == [i \in DOMAIN raw_types |-> normalized_type(raw_types[i], order)]
        uniq == first_seen(normalized_types)
    IN join([i \in DOMAIN uniq |-> uniq[i].v], COMMA \o SPACE)

\* Variant of corrected_score: the rationale is tested as it is written.
corrected_score_case_sensitive(score, why) ==
    IF score = 0 /\ contains(why, RELEVANT) /\ ~contains(why, NO_ABSTRACT)
    THEN 50 ELSE score

\* relevance_score after the self-correction (lines 463-469)
corrected_score(score, why) ==
    IF score = 0 /\ contains(lower(why), RELEVANT) /\ ~contains(lower(why), NO_ABSTRACT)
    THEN 50 ELSE score

has_strong_keyword(text) ==
    \E i \in DOMAIN STRONG_KEYWORDS : contains(lower(text), STRONG_KEYWORDS[i])

\* Variant of pipeline_confidence: the keywords are not looked for.
pipeline_confidence_no_keywords(provider, full_text_used, relevance_score, methods, key_findings) ==
    IF provider = "openai" /\ relevance_score <= 85 /\ relevance_score >= 70
    THEN ConfidenceAmbiguous
    ELSE IF full_text_used THEN ConfidenceHigh
    ELSE IF relevance_score >= 80 THEN ConfidenceMedium
    ELSE ConfidenceLow

\* confidence (lines 471-497)
pipeline_confidence(provider, full_text_used, relevance_score, methods, key_findings) ==
    IF provider = "openai" /\ relevance_score <= 85 /\ relevance_score >= 70
    THEN ConfidenceAmbiguous
    ELSE IF full_text_used THEN ConfidenceHigh
    ELSE IF relevance_score >= 80 THEN ConfidenceMedium
    ELSE IF has_strong_keyword(methods) \/ has_strong_keyword(key_findings)
    THEN ConfidenceMedium
    ELSE ConfidenceLow

\* the argument of rec.update (lines 499-511)
enrichment_update(p, provider, full_text_used, order) ==
    LET d == with_defaults(p)
        relevance_score == corrected_score(d.RelevanceScore, d.WhyRelevant)
    IN [RelevanceScore |-> relevance_score,
        WhyRelevant |-> d.WhyRelevant,
        StudySummary |-> d.StudySummary,
        Methods |-> d.Methods,
        KeyFindings |-> d.KeyFindings,
        DataTypes |-> normalized_data_types(d.DataTypes, order),
        Group |-> d.Group,
        PipelineConfidence |-> pipeline_confidence(provider, full_text_used,
                                   relevance_score, d.Methods, d.KeyFindings),
        FullTextUsed |-> full_text_used]

\* the record after its enrichment: the marked Title and the updated keys
enriched_record(rec, p, provider, full_text_used, order) ==
    rec_update([rec EXCEPT !.Title = marked_title(rec.Title, p)],
               enrichment_update(p, provider, full_text_used, order))

\* ---------------------------------------------------------------- writer
Succeeded(status) == status < 300

\* What the store answers to the successive attempts of one request: `busy`
\* rate-limit answers, then `code`.
Answers(busy, code) == [i \in 1..(max_retries + 1) |-> IF i <= busy THEN 429 ELSE code]

\* http_utils.make_session, the Retry of the session's adapter: an answer of
\* status_forcelist is retried while retries remain (raise_on_status=False: the
\* last answer is returned as it is). The answers received, in order.
RECURSIVE session_send(_, _)
session_send(answers, retries) ==
    IF Head(answers) \in status_forcelist /\ retries > 0
    THEN <<Head(answers)>> \o session_send(Tail(answers), retries - 1)
    ELSE <<Head(answers)>>

\* resp.status_code of session.post / session.patch
status_code(answers) ==
    LET got == session_send(answers, max_retries) IN got[Len(got)]

\* Variant of notion_create_pages: DRY_RUN is not consulted.
notion_create_pages_no_dry(c, recs, answers) ==
    IF c.NOTION_TOKEN = <<>> \/ c.NOTION_DB_ID = <<>> THEN <<>>
    ELSE
    [i \in DOMAIN recs |->
        [op |-> "create", PMID |-> recs[i].PMID,
         DedupeKey |-> truncate_for_notion(recs[i].DedupeKey, NotionTextLimit),
         props |-> DOMAIN build_notion_page_properties(flow_record(recs[i])),
         page_id |-> 0,
         sent |-> Len(session_send(answers[i], max_retries)),
         status |-> status_code(answers[i])]]

\* notion_tasks.notion_create_pages: one POST per record unless DRY_RUN or
\* the token or the database id is missing; the
\* DedupeKey property carries truncate_for_notion(DedupeKey). sent is the number
\* of times the session put the request on the wire, status the status_code
\* the loop saw.
notion_create_pages(c, recs, answers) ==
    IF c.DRY_RUN THEN <<>>
    ELSE IF c.NOTION_TOKEN = <<>> \/ c.NOTION_DB_ID = <<>> THEN <<>>
    ELSE [i \in DOMAIN recs |->
             [op |-> "create", PMID |-> recs[i].PMID,
              DedupeKey |-> truncate_for_notion(recs[i].DedupeKey, NotionTextLimit),
              props |-> DOMAIN build_notion_page_properties(flow_record(recs[i])),
              page_id |-> 0,
              sent |-> Len(session_send(answers[i], max_retries)),
              status |-> status_code(answers[i])]]

\* notion_tasks.notion_update_pages: one PATCH per record that has a page_id,
\* unless DRY_RUN or the token is missing.
notion_update_pages(c, recs, answers) ==
    IF c.DRY_RUN THEN <<>>
    ELSE IF c.NOTION_TOKEN = <<>> THEN <<>>
    ELSE LET with_page == SelectSeq(recs, LAMBDA r : r.page_id # 0)
         IN [i \in DOMAIN with_page |->
                [op |-> "update", PMID |-> with_page[i].PMID,
                 DedupeKey |-> truncate_for_notion(with_page[i].DedupeKey, NotionTextLimit),
                 props |-> DOMAIN build_notion_page_properties(flow_record(with_page[i])),
                 page_id |-> with_page[i].page_id,
                 sent |-> Len(session_send(answers[i], max_retries)),
                 status |-> status_code(answers[i])]]

\* Variant of written: every request is counted.
written_any(reqs) == Len(reqs)

\* The count the writer returns, {"created": created} / {"updated": updated}:
\* incremented for each response below 300.
written(reqs) == Len(SelectSeq(reqs, LAMBDA q : Succeeded(q.status)))

\* The store after the create-page requests: each accepted one adds a page.
store_after_create(pages, reqs) ==
    LET ok == SelectSeq(reqs, LAMBDA q : Succeeded(q.status))
    IN pages \o [i \in DOMAIN ok |-> ok[i].DedupeKey]

\* The store after the update-page requests: each accepted one rewrites the
\* properties of its page.
store_after_update(pages, reqs) ==
    LET ok == SelectSeq(reqs, LAMBDA q : Succeeded(q.status))
        touched == {ok[i].page_id : i \in DOMAIN ok}
        text(p) == LET at == {i \in DOMAIN ok : ok[i].page_id = p}
                   IN ok[CHOOSE i \in at : \A j \in at : j <= i].DedupeKey
    IN [p \in DOMAIN pages |-> IF p \in touched THEN text(p) ELSE pages[p]]

\* ------------------------------------------------------------------ inputs
\* os.environ: the variables the run reads; "" stands for an unset one.
Environ(provider, token, db_id, google_key, openai_key) ==
    [AI_PROVIDER |-> provider, NOTION_TOKEN |-> token, NOTION_DB_ID |-> db_id,
     GOOGLE_API_KEY |-> google_key, OPENAI_API_KEY |-> openai_key]

\* Every credential is set.
FullEnviron(provider) == Environ(provider, SampleText, SampleText, SampleText, SampleText)

\* config.get_config: the keys the flow and its tasks read.
get_config(env, retmax, dry_run) ==
    [RETMAX |-> retmax, DRY_RUN |-> dry_run, AI_PROVIDER |-> env.AI_PROVIDER,
     NOTION_TOKEN |-> env.NOTION_TOKEN, NOTION_DB_ID |-> env.NOTION_DB_ID,
     OPENAI_API_KEY |-> env.OPENAI_API_KEY,
     HISTORICAL_MEDIAN |-> HISTORICAL_MEDIAN, GOLD_SET |-> GOLD_SET]

\* config.validate_config: the credentials it finds missing; it raises
\* ValueError when there is one.
validate_config(c, env) ==
    (IF ~c.DRY_RUN /\ c.NOTION_TOKEN = <<>> THEN {"NOTION_TOKEN"} ELSE {}) \cup
    (IF ~c.DRY_RUN /\ c.NOTION_DB_ID = <<>> THEN {"NOTION_DB_ID"} ELSE {}) \cup
    (IF c.AI_PROVIDER = "gemini" /\ env.GOOGLE_API_KEY = <<>> THEN {"GOOGLE_API_KEY"} ELSE {}) \cup
    (IF c.AI_PROVIDER = "openai" /\ c.OPENAI_API_KEY = <<>> THEN {"OPENAI_API_KEY"} ELSE {})

\* Result sets varied exhaustively: up to MaxItems items, uid = position, the
\* first item with any DOI of DoiChoices, the second with none or the same DOI.
SmallRemote(n, d1, d2) ==
    [i \in 1..n |-> Summary(i, IF i = 1 THEN d1 ELSE IF i = 2 THEN d2 ELSE NoDoi)]

SmallRemotes ==
    {SmallRemote(n, d1, d2) : n \in 0..MaxItems, d1 \in DoiChoices, d2 \in {NoDoi, DoiA}}

\* Result sets of the scenarios: n items without DOI; the first head items and,
\* with tail, every item after the first page of BiweeklyTarget are in the store.
Scenarios ==
    {[n |-> 25, head |-> 15, tail |-> FALSE, gold |-> FALSE],
     [n |-> 40, head |-> 15, tail |-> FALSE, gold |-> FALSE],
     [n |-> 40, head |-> 15, tail |-> TRUE, gold |-> FALSE],
     [n |-> 80, head |-> 15, tail |-> FALSE, gold |-> FALSE],
     [n |-> 300, head |-> 0, tail |-> FALSE, gold |-> TRUE],
     [n |-> 1500, head |-> 15, tail |-> TRUE, gold |-> FALSE]}

ScenarioRemote(sc) ==
    [i \in 1..sc.n |-> Summary(IF sc.gold /\ i = 1 THEN GoldPmid ELSE i, NoDoi)]

ScenarioIndexed(sc) ==
    (1..sc.head) \cup (IF sc.tail THEN (BiweeklyTarget + 1)..sc.n ELSE {})

\* The store holding a page for each item of rem at a position of S, as the
\* writer would have left it.
StoreOf(rem, S) ==
    LET pos == SelectSeq([i \in 1..Len(rem) |-> i], LAMBDA i : i \in S)
    IN [j \in DOMAIN pos |->
           truncate_for_notion(provisional_key(rem[pos[j]]), NotionTextLimit)]

\* -------------------------------------------------------------------- Init
NoValidation == [count |-> 0, ids |-> <<>>, goldMissing |-> FALSE, status |-> "NONE"]

FreshLocals ==
    /\ index = <<>>
    /\ esearch_out = [count |-> 0, ids |-> <<>>]
    /\ validation = NoValidation
    /\ new_pmids = <<>>
    /\ update_pmids = <<>>
    /\ all_esummary_results = <<>>
    /\ current_retstart = 0
    /\ current_fetch_size = 0
    /\ page_count = 0
    /\ broke = FALSE
    /\ abstracts_map = {}
    /\ records = <<>>
    /\ to_create = <<>>
    /\ to_update_final = <<>>
    /\ enriched_new = <<>>
    /\ attempt = 0
    /\ calls = <<>>
    /\ requests = <<>>
    /\ create_res = 0
    /\ update_res = 0

InitSmall ==
    /\ remote \in SmallRemotes
    /\ \/ \E S \in SUBSET (1..Len(remote)) : store = StoreOf(remote, S)
       \/ remote = <<>> /\ store = <<DoiA>>
    /\ \E t \in 0..MaxTarget : cfg = get_config(FullEnviron("gemini"), t, FALSE)

InitModes ==
    /\ remote = SmallRemote(2, NoDoi, NoDoi)
    /\ \E S \in {{}, {1}} : store = StoreOf(remote, S)
    /\ \E dry \in BOOLEAN, prov \in Providers : cfg = get_config(FullEnviron(prov), MaxTarget, dry)

InitScenario ==
    \E sc \in Scenarios :
        /\ remote = ScenarioRemote(sc)
        /\ store = StoreOf(remote, ScenarioIndexed(sc))
        /\ cfg = get_config(FullEnviron("gemini"), BiweeklyTarget, FALSE)

\* Every credential the run's mode needs is set.
Credentialed == environ = FullEnviron(cfg.AI_PROVIDER)

\* literature_search_flow is run directly, not by the biweekly deployment.
Direct == biweekly = [week_number |-> 0, attempt |-> 0, status |-> "none"]

\* No single record is followed.
NoRecord ==
    /\ esummary_json = <<>>
    /\ efetch_data = <<>>
    /\ parsed = <<>>
    /\ record = <<>>
    /\ props = <<>>
    /\ raw_json = <<>>
    /\ pmc_fulltext_map = <<>>
    /\ pmc_answers = <<>>

FirstRun ==
    /\ quota = "available"
    /\ run = 1
    /\ pc = "index"
    /\ outcome = "running"
    /\ faults = 0
    /\ created_before = {}
    /\ clean_before = TRUE
    /\ FreshLocals
    /\ NoRecord

\* Successive runs over the exhaustively varied result sets.
Init == (InitSmall \/ InitModes) /\ FirstRun /\ Credentialed /\ Direct

\* One run in every mode and with every combination of credentials set or
\* unset; literature_search_flow goes from get_config to notion_build_index
\* (lines 40-50).
Credentials == {<<>>, SampleText}

Environs ==
    {Environ(p, t, d, g, o) :
        p \in Providers, t \in Credentials, d \in Credentials,
        g \in Credentials, o \in Credentials}

InitConfig ==
    /\ remote = SmallRemote(2, NoDoi, NoDoi)
    /\ \E S \in {{}, {1}, {1, 2}} : store = StoreOf(remote, S)
    /\ environ \in Environs
    /\ \E dry \in BOOLEAN : cfg = get_config(environ, MaxTarget, dry)
    /\ FirstRun
    /\ Direct

\* One run of the biweekly deployment over a scenario's result set.
InitBiweekly == InitScenario /\ FirstRun /\ Credentialed /\ Direct

\* ----------------------------------------------------------------- actions
responses == <<raw_json, pmc_fulltext_map, pmc_answers, environ, biweekly>>
one_record == <<esummary_json, efetch_data, parsed, record, props, responses>>
world == <<remote, cfg, run, created_before, clean_before, one_record>>
loop_locals == <<new_pmids, update_pmids, all_esummary_results,
                 current_retstart, current_fetch_size, page_count, broke>>
record_locals == <<abstracts_map, records, to_create, to_update_final>>
enrich_locals == <<enriched_new, attempt, calls>>
writer == <<requests, create_res, update_res>>

\* literature_flow step 1: index = notion_build_index(cfg)
BuildIndex ==
    /\ pc = "index"
    /\ \E size \in QueryPageSizes :
          /\ size * MaxQueries >= Len(store)
          /\ index' = notion_build_index(cfg, store, size)
    /\ pc' = "search"
    /\ UNCHANGED <<world, store, quota, outcome, faults, esearch_out, validation,
                   loop_locals, record_locals, enrich_locals, writer>>

\* literature_flow step 2: esearch, validate_results, the count == 0 return,
\* and the initialisation of the loop variables.
Search ==
    /\ pc = "search"
    /\ esearch_out' = pubmed_esearch(cfg, remote)
    /\ validation' = validate_results(esearch_out', cfg)
    /\ IF stop_after_search(validation')
       THEN /\ pc' = "done"
            /\ outcome' = "returned"
            /\ UNCHANGED current_fetch_size
       ELSE /\ pc' = "paginate"
            /\ outcome' = outcome
            /\ current_fetch_size' = cfg.RETMAX
    /\ UNCHANGED <<world, store, quota, faults, index, new_pmids, update_pmids,
                   all_esummary_results, current_retstart, page_count, broke,
                   record_locals, enrich_locals, writer>>

\* literature_flow step 3, one iteration of the while loop. The summary fetch
\* answers with the page, with nothing usable (break), or raises.
FetchPage ==
    /\ pc = "paginate"
    /\ ~broke
    /\ loop_cond(new_pmids, cfg.RETMAX, current_retstart, validation.count, page_count)
    /\ page_count' = page_count + 1
    /\ \E answer \in {"page", "nothing", "raise"} :
        LET batch_size == this_batch_size(current_fetch_size, validation.count,
                                          current_retstart)
            page == pubmed_esummary_history(remote, batch_size, current_retstart)
        IN /\ answer # "page" => faults < MaxFaults /\ page_count < MaxFaultPos
           /\ faults' = IF answer = "page" THEN faults ELSE faults + 1
           /\ IF answer = "raise"
              THEN /\ pc' = "done"
                   /\ outcome' = "raised"
                   /\ UNCHANGED <<new_pmids, update_pmids, all_esummary_results,
                                  current_retstart, current_fetch_size, broke>>
              ELSE IF answer = "nothing" \/ page = <<>>
              THEN /\ broke' = TRUE
                   /\ UNCHANGED <<pc, outcome, new_pmids, update_pmids,
                                  all_esummary_results, current_retstart,
                                  current_fetch_size>>
              ELSE /\ all_esummary_results' = all_esummary_results \o page
                   /\ new_pmids' = new_pmids \o batch_new(page, index)
                   /\ update_pmids' = update_pmids \o batch_update(page, index)
                   /\ current_retstart' = current_retstart + batch_size
                   /\ current_fetch_size' = NextPageSize
                   /\ UNCHANGED <<pc, outcome, broke>>
    /\ UNCHANGED <<world, store, quota, index, esearch_out, validation,
                   record_locals, enrich_locals, writer>>

\* literature_flow after the loop: the trim to the target and the return when
\* nothing was found.
FinishLoop ==
    /\ pc = "paginate"
    /\ broke \/ ~loop_cond(new_pmids, cfg.RETMAX, current_retstart, validation.count, page_count)
    /\ new_pmids' = trim(new_pmids, cfg.RETMAX)
    /\ IF new_pmids' = <<>> /\ update_pmids = <<>>
       THEN pc' = "done" /\ outcome' = "returned"
       ELSE pc' = "efetch" /\ outcome' = outcome
    /\ UNCHANGED <<world, store, quota, faults, index, esearch_out, validation,
                   update_pmids, all_esummary_results, current_retstart,
                   current_fetch_size, page_count, broke,
                   record_locals, enrich_locals, writer>>

\* literature_flow step 4: abstracts (and full text) for the new papers only.
FetchAbstracts ==
    /\ pc = "efetch"
    /\ abstracts_map' = {new_pmids[i] : i \in DOMAIN new_pmids}
    /\ pc' = "normalize"
    /\ UNCHANGED <<world, store, quota, outcome, faults, index, esearch_out, validation,
                   loop_locals, records, to_create, to_update_final,
                   enrich_locals, writer>>

\* literature_flow steps 5 and 6: normalize, then separate new from existing.
NormalizeAndSplit ==
    /\ pc = "normalize"
    /\ records' = normalize_records(all_esummary_results)
    /\ to_create' = split_create(records', update_pmids, new_pmids)
    /\ to_update_final' = split_update(records', update_pmids, new_pmids)
    /\ pc' = IF to_create' # <<>> THEN "enrich" ELSE "update"
    /\ UNCHANGED <<world, store, quota, outcome, faults, index, esearch_out, validation,
                   loop_locals, abstracts_map, enrich_locals, writer>>

\* Response scripts of the classification provider for a batch of n records.
Clear == Returns(Answer(90, SampleText))
MidBand == Returns(Answer(75, SampleText))
AllOk == <<Clear, Clear, Clear>>
AllExhausted == <<Raises("ResourceExhausted"), Raises("ResourceExhausted"),
                  Raises("ResourceExhausted")>>

\* kind "none": every call answers; "quota": the quota runs out at record k and
\* stays out; "error": the first call of record k fails; "ambiguous": the
\* default model answers record k in the mid-band.
Script(n, kind, k) ==
    [i \in 1..n |->
        IF kind = "quota" /\ i >= k THEN AllExhausted
        ELSE IF kind = "error" /\ i = k THEN <<Raises("Error"), Clear, Clear>>
        ELSE IF kind = "ambiguous" /\ i = k THEN <<MidBand, Clear, Clear>>
        ELSE AllOk]

\* Variant of enrichment_raised: after ResourceExhausted the flow goes on to
\* its step 8.
enrichment_raised_goes_on(e) ==
    IF e = "ResourceExhausted" THEN [pc |-> "update", outcome |-> "running"]
    ELSE [pc |-> "done", outcome |-> "raised"]

\* literature_flow lines 196-206, the enrichment task has raised for good:
\* except ResourceExhausted returns from the flow, any other exception leaves
\* it.
enrichment_raised(e) ==
    IF e = "ResourceExhausted" THEN [pc |-> "done", outcome |-> "returned"]
    ELSE [pc |-> "done", outcome |-> "raised"]

\* literature_flow step 7, one execution of the enrichment task.  The flow
\* names it gemini_enrich_records; modules/enrichment.py defines the task as
\* ai_enrich_records, which is the one modelled
\* (@task(retries=2)): a raising execution is run again until the retries are
\* used up; then ResourceExhausted reaches the flow's except clause (return)
\* and any other error ends the flow.
EnrichAttempt ==
    /\ pc = "enrich"
    /\ \E kind \in {"none", "quota", "error", "ambiguous"},
          k \in 0..Min(Len(to_create), MaxFaultPos) :
        /\ (kind = "none") <=> (k = 0)
        /\ quota = "exhausted" => kind = "quota" /\ k = 1
        /\ quota = "available" /\ kind \in {"quota", "error"} => faults < MaxFaults
        /\ kind = "ambiguous" => cfg.AI_PROVIDER = "openai"
        /\ ~has_api_key(environ, cfg.AI_PROVIDER) => kind = "none"
        /\ LET r == ai_enrich_records(to_create, environ, cfg.AI_PROVIDER,
                                      Script(Len(to_create), kind, k))
           IN /\ calls' = calls \o r.calls
              /\ to_create' = r.records
              /\ attempt' = attempt + 1
              /\ quota' = IF kind = "quota" THEN "exhausted" ELSE quota
              /\ faults' = IF quota = "available" /\ kind \in {"quota", "error"}
                           THEN faults + 1 ELSE faults
              /\ IF r.raised = "none"
                 THEN /\ enriched_new' = r.enriched
                      /\ pc' = "create"
                      /\ outcome' = outcome
                 ELSE IF attempt < TaskRetries
                 THEN UNCHANGED <<enriched_new, pc, outcome>>
                 ELSE /\ pc' = enrichment_raised(r.raised).pc
                      /\ outcome' = enrichment_raised(r.raised).outcome
                      /\ UNCHANGED enriched_new
    /\ UNCHANGED <<world, store, index, esearch_out, validation, loop_locals,
                   abstracts_map, records, to_update_final, writer>>

\* The provider's quota is restored while the task waits for its retry.
Replenish ==
    /\ pc = "enrich"
    /\ attempt > 0
    /\ quota = "exhausted"
    /\ quota' = "available"
    /\ UNCHANGED <<world, store, pc, outcome, faults, index, esearch_out, validation,
                   loop_locals, record_locals, enrich_locals, writer>>

\* The answers of the store to a batch of n records: every request accepted,
\* or the request of record k answered with reply.
Replies(n, k, reply) == [i \in 1..n |-> IF i = k THEN reply ELSE Answers(0, 200)]

\* A request refused, a request rate-limited beyond the session's retries.
FailingReplies == {Answers(0, 400), Answers(max_retries + 1, 200)}

\* Variant of CreatePagesAnswered: a relevance filter before the create, only
\* the records whose accepted answer scores 50 or more are handed on.
CreatePagesRelevant(answers) ==
    /\ pc = "create"
    /\ LET keep == SelectSeq([i \in DOMAIN enriched_new |-> i],
                             LAMBDA i : rel_score(parsed[i]) >= 50)
           reqs == notion_create_pages(cfg, [k \in DOMAIN keep |-> enriched_new[keep[k]]],
                                       answers)
       IN /\ requests' = requests \o reqs
          /\ create_res' = written(reqs)
          /\ store' = store_after_create(store, reqs)
    /\ pc' = "update"
    /\ UNCHANGED <<world, quota, outcome, index, esearch_out, validation,
                   loop_locals, record_locals, enrich_locals, update_res>>

\* create_res = notion_create_pages(cfg, enriched_new), answered with answers
CreatePagesAnswered(answers) ==
    /\ pc = "create"
    /\ LET reqs == notion_create_pages(cfg, enriched_new, answers)
       IN /\ requests' = requests \o reqs
          /\ create_res' = written(reqs)
          /\ store' = store_after_create(store, reqs)
    /\ pc' = "update"
    /\ UNCHANGED <<world, quota, outcome, index, esearch_out, validation,
                   loop_locals, record_locals, enrich_locals, update_res>>

\* update_res = notion_update_pages(cfg, to_update_final), answered with
\* answers, and the end of the flow.
UpdatePagesAnswered(answers) ==
    /\ pc = "update"
    /\ LET reqs == notion_update_pages(cfg, to_update_final, answers)
       IN /\ requests' = requests \o reqs
          /\ update_res' = written(reqs)
          /\ store' = store_after_update(store, reqs)
    /\ pc' = "done"
    /\ outcome' = "returned"
    /\ UNCHANGED <<world, quota, index, esearch_out, validation,
                   loop_locals, record_locals, enrich_locals, create_res>>

\* literature_flow step 7
CreatePages ==
    \E k \in 0..Min(Len(enriched_new), MaxFaultPos), reply \in FailingReplies :
        /\ k = 0 => reply = Answers(0, 400)
        /\ k > 0 => faults < MaxFaults /\ ~cfg.DRY_RUN
        /\ CreatePagesAnswered(Replies(Len(enriched_new), k, reply))
        /\ faults' = IF k > 0 THEN faults + 1 ELSE faults

\* literature_flow step 8
UpdatePages ==
    \E k \in 0..Min(Len(to_update_final), MaxFaultPos), reply \in FailingReplies :
        /\ k = 0 => reply = Answers(0, 400)
        /\ k > 0 => faults < MaxFaults /\ ~cfg.DRY_RUN
        /\ UpdatePagesAnswered(Replies(Len(to_update_final), k, reply))
        /\ faults' = IF k > 0 THEN faults + 1 ELSE faults

\* The pipeline is run again against the same result set and the store as the
\* previous run left it.
NextRun ==
    /\ pc = "done"
    /\ run < MaxRuns
    /\ run' = run + 1
    /\ created_before' = created_before \cup
           {requests[i].PMID : i \in {j \in DOMAIN requests :
                requests[j].op = "create" /\ Succeeded(requests[j].status)}}
    /\ clean_before' = (clean_before /\ outcome = "returned" /\ faults = 0)
    /\ pc' = "index"
    /\ outcome' = "running"
    /\ quota' = "available"
    /\ index' = <<>>
    /\ esearch_out' = [count |-> 0, ids |-> <<>>]
    /\ validation' = NoValidation
    /\ new_pmids' = <<>>
    /\ update_pmids' = <<>>
    /\ all_esummary_results' = <<>>
    /\ current_retstart' = 0
    /\ current_fetch_size' = 0
    /\ page_count' = 0
    /\ broke' = FALSE
    /\ abstracts_map' = {}
    /\ records' = <<>>
    /\ to_create' = <<>>
    /\ to_update_final' = <<>>
    /\ enriched_new' = <<>>
    /\ attempt' = 0
    /\ calls' = <<>>
    /\ requests' = <<>>
    /\ create_res' = 0
    /\ update_res' = 0
    /\ UNCHANGED <<remote, cfg, store, faults, one_record>>

\* One run of the flow.
NextFlow ==
    \/ BuildIndex
    \/ Search
    \/ FetchPage
    \/ FinishLoop
    \/ FetchAbstracts
    \/ NormalizeAndSplit
    \/ EnrichAttempt
    \/ Replenish
    \/ CreatePages
    \/ UpdatePages

Next ==
    \/ NextFlow
    \/ NextRun

Spec == Init /\ [][Next]_vars

SpecBiweekly == InitBiweekly /\ [][NextFlow]_vars

SpecConfig == InitConfig /\ [][NextFlow]_vars

\* The loop is sequential code: an iteration or the exit that can be taken
\* is taken.
SpecBiweeklyFair == SpecBiweekly /\ WF_vars(FetchPage \/ FinishLoop)

\* ------------------------------------------------ the biweekly deployment
\* biweekly_literature_search_flow: the check of the week, then the base flow
\* invoked with retmax = max_results until an invocation does not raise or
\* max_retries invocations have been made.
biweekly_max_retries == 3

\* is_biweekly_run: the ISO week number of today is odd.
is_biweekly_run(week_number) == week_number % 2 = 1

IsoWeeks == {1, 2, 52, 53}

WrapperScenarios == {sc \in Scenarios : sc.n <= 80}

InitWrapper ==
    /\ \/ \E sc \in WrapperScenarios :
             /\ remote = ScenarioRemote(sc)
             /\ store = StoreOf(remote, ScenarioIndexed(sc))
       \/ remote = <<>> /\ store = <<>>
    /\ cfg = get_config(FullEnviron("gemini"), BiweeklyTarget, FALSE)
    /\ \E w \in IsoWeeks : biweekly = [week_number |-> w, attempt |-> 0, status |-> "none"]
    /\ quota = "available"
    /\ run = 0
    /\ pc = "wrapper"
    /\ outcome = "running"
    /\ faults = 0
    /\ created_before = {}
    /\ clean_before = TRUE
    /\ FreshLocals
    /\ NoRecord
    /\ Credentialed

\* biweekly_flow lines 50-79: an even week is skipped; otherwise the first
\* attempt invokes the base flow.
BiweeklyCheck ==
    /\ pc = "wrapper"
    /\ IF is_biweekly_run(biweekly.week_number)
       THEN /\ biweekly' = [biweekly EXCEPT !.attempt = 1]
            /\ run' = 1
            /\ pc' = "index"
       ELSE /\ biweekly' = [biweekly EXCEPT !.status = "skipped"]
            /\ run' = run
            /\ pc' = "wrapper_done"
    /\ UNCHANGED <<remote, cfg, created_before, clean_before, esummary_json,
                   efetch_data, parsed, record, props, raw_json, pmc_fulltext_map,
                   pmc_answers, environ, store, quota, outcome, faults, index,
                   esearch_out, validation, loop_locals, record_locals,
                   enrich_locals, writer>>

\* biweekly_flow lines 81-113: the base flow has returned (status success),
\* or it has raised: status failed after max_retries attempts, the next
\* attempt otherwise.
BiweeklyAttemptEnded ==
    /\ pc = "done"
    /\ biweekly.status = "none"
    /\ IF outcome = "returned"
       THEN /\ biweekly' = [biweekly EXCEPT !.status = "success"]
            /\ pc' = "wrapper_done"
            /\ UNCHANGED <<run, outcome, faults, quota, index, esearch_out, validation,
                           loop_locals, record_locals, enrich_locals, writer>>
       ELSE IF biweekly.attempt >= biweekly_max_retries
       THEN /\ biweekly' = [biweekly EXCEPT !.status = "failed"]
            /\ pc' = "wrapper_done"
            /\ UNCHANGED <<run, outcome, faults, quota, index, esearch_out, validation,
                           loop_locals, record_locals, enrich_locals, writer>>
       ELSE /\ biweekly' = [biweekly EXCEPT !.attempt = @ + 1]
            /\ run' = run + 1
            /\ pc' = "index"
            /\ outcome' = "running"
            /\ faults' = 0
            /\ quota' = "available"
            /\ index' = <<>>
            /\ esearch_out' = [count |-> 0, ids |-> <<>>]
            /\ validation' = NoValidation
            /\ new_pmids' = <<>>
            /\ update_pmids' = <<>>
            /\ all_esummary_results' = <<>>
            /\ current_retstart' = 0
            /\ current_fetch_size' = 0
            /\ page_count' = 0
            /\ broke' = FALSE
            /\ abstracts_map' = {}
            /\ records' = <<>>
            /\ to_create' = <<>>
            /\ to_update_final' = <<>>
            /\ enriched_new' = <<>>
            /\ attempt' = 0
            /\ calls' = <<>>
            /\ requests' = <<>>
            /\ create_res' = 0
            /\ update_res' = 0
    /\ UNCHANGED <<remote, cfg, created_before, clean_before, esummary_json,
                   efetch_data, parsed, record, props, raw_json, pmc_fulltext_map,
                   pmc_answers, environ, store>>

NextWrapper ==
    \/ BiweeklyCheck
    \/ NextFlow
    \/ BiweeklyAttemptEnded

SpecWrapper == InitWrapper /\ [][NextWrapper]_vars

\* --------------------------------------------------- the validator alone
\* Inputs of validate_results: counts around the thresholds of each median,
\* the first page with and without a canary, and the canary sets of the
\* configuration and of the unit tests.
ValidateMedians == {0, 3, 4, HISTORICAL_MEDIAN}
ValidateCounts ==
    (0..MaxCount) \cup {HISTORICAL_MEDIAN \div 2 - 1, HISTORICAL_MEDIAN \div 2,
                        HISTORICAL_MEDIAN * 2, HISTORICAL_MEDIAN * 2 + 1}
ValidateIds ==
    {<<>>, <<Digits(1)>>, <<Digits(GoldPmid)>>, <<Digits(1), Digits(GoldPmid)>>}
ValidateGoldSets == {{}, GOLD_SET, {Digits(1)}}

InitValidate ==
    /\ \E m \in ValidateMedians, g \in ValidateGoldSets :
          cfg = [get_config(FullEnviron("gemini"), BiweeklyTarget, FALSE)
                    EXCEPT !.HISTORICAL_MEDIAN = m, !.GOLD_SET = g]
    /\ \E n \in ValidateCounts, ids \in ValidateIds :
          /\ Len(ids) <= n
          /\ esearch_out = [count |-> n, ids |-> ids]
    /\ pc = "validate"
    /\ validation = NoValidation
    /\ remote = <<>> /\ store = <<>> /\ index = <<>>
    /\ quota = "available" /\ run = 1 /\ outcome = "running" /\ faults = 0
    /\ created_before = {} /\ clean_before = TRUE
    /\ new_pmids = <<>> /\ update_pmids = <<>> /\ all_esummary_results = <<>>
    /\ current_retstart = 0 /\ current_fetch_size = 0 /\ page_count = 0
    /\ broke = FALSE
    /\ abstracts_map = {} /\ records = <<>> /\ to_create = <<>>
    /\ to_update_final = <<>> /\ enriched_new = <<>>
    /\ attempt = 0 /\ calls = <<>> /\ requests = <<>>
    /\ create_res = 0 /\ update_res = 0
    /\ NoRecord
    /\ Credentialed
    /\ Direct

\* validation = validate_results(esearch_out, cfg)
Validate ==
    /\ pc = "validate"
    /\ validation' = validate_results(esearch_out, cfg)
    /\ pc' = "validated"
    /\ UNCHANGED <<world, store, quota, outcome, faults, index, esearch_out,
                   loop_locals, record_locals, enrich_locals, writer>>

NextValidate == Validate

SpecValidate == InitValidate /\ [][NextValidate]_vars

\* ------------------------------------------------- one record, end to end
\* The record functions alone: normalize_records, the enrichment update and
\* build_notion_page_properties applied to one record and a neighbour.
FlowIdle ==
    /\ remote = <<>> /\ store = <<>> /\ index = <<>>
    /\ esearch_out = [count |-> 0, ids |-> <<>>]
    /\ validation = NoValidation
    /\ quota = "available" /\ run = 1 /\ outcome = "running" /\ faults = 0
    /\ created_before = {} /\ clean_before = TRUE
    /\ new_pmids = <<>> /\ update_pmids = <<>> /\ all_esummary_results = <<>>
    /\ current_retstart = 0 /\ current_fetch_size = 0 /\ page_count = 0
    /\ broke = FALSE
    /\ abstracts_map = {} /\ records = <<>> /\ to_create = <<>>
    /\ to_update_final = <<>> /\ enriched_new = <<>>
    /\ attempt = 0 /\ calls = <<>> /\ requests = <<>>
    /\ create_res = 0 /\ update_res = 0

InitRecord ==
    /\ FlowIdle
    /\ cfg = get_config(FullEnviron("gemini"), BiweeklyTarget, FALSE)
    /\ pc = "summary"
    /\ \E title \in {<<>>, SampleText}, d1 \in RecordDois, d2 \in {NoDoi, DoiA} :
          esummary_json = <<SummaryEntry(1, title, d1), SummaryEntry(2, SampleText, d2)>>
    /\ efetch_data \in EfetchEntries \cup {<<>>}
    /\ parsed \in EnrichmentFields \cup {<<>>}
    /\ record = <<>>
    /\ props = <<>>
    /\ raw_json = <<>>
    /\ pmc_fulltext_map = <<>>
    /\ pmc_answers = <<>>
    /\ Credentialed
    /\ Direct

flow_state == <<store, quota, outcome, faults, index, esearch_out, validation,
                loop_locals, record_locals, enrich_locals, writer,
                remote, cfg, run, created_before, clean_before>>

\* records = normalize_records(combined_esummary, abstracts_map)
Normalize ==
    /\ pc = "summary"
    /\ record' = normalize_merged(esummary_json, efetch_data)
    /\ pc' = "normalized"
    /\ UNCHANGED <<flow_state, responses, esummary_json, efetch_data, parsed, props>>

\* ai_enrich_records: the record of a new item takes the classification.
EnrichRecord ==
    /\ pc = "normalized"
    /\ parsed # <<>>
    /\ record' = [record EXCEPT ![1] = rec_update(@, parsed)]
    /\ pc' = "enriched"
    /\ UNCHANGED <<flow_state, responses, esummary_json, efetch_data, parsed, props>>

\* notion_create_pages: props = build_notion_page_properties(rec), for a new
\* item, enriched or handed back unenriched by the enrichment task.
BuildCreatePayload ==
    /\ pc \in {"normalized", "enriched"}
    /\ props' = build_notion_page_properties(record[1])
    /\ pc' = "create_payload"
    /\ UNCHANGED <<flow_state, responses, esummary_json, efetch_data, parsed, record>>

\* literature_flow step 6 and notion_update_pages: an existing item gets its
\* page_id and props = build_notion_page_properties(rec); it is never enriched.
BuildUpdatePayload ==
    /\ pc = "normalized"
    /\ efetch_data = <<>>          \* abstracts are fetched for new_pmids only
    /\ record' = [record EXCEPT ![1] = [page_id |-> 1] @@ @]
    /\ props' = build_notion_page_properties(record'[1])
    /\ pc' = "update_payload"
    /\ UNCHANGED <<flow_state, responses, esummary_json, efetch_data, parsed>>

NextRecord ==
    \/ Normalize
    \/ EnrichRecord
    \/ BuildCreatePayload
    \/ BuildUpdatePayload

SpecRecord == InitRecord /\ [][NextRecord]_vars

\* ------------------------------------------------------ the writer alone
\* The writer tasks on batches as step 6 of the flow hands them over: enriched
\* new records and existing records with their page_id, in both modes, the
\* store answering each request on its own.
WriterReplies ==
    {Answers(busy, code) : busy \in {0, 1, max_retries, max_retries + 1},
                           code \in {200, 400}}

WriterCreateBatches ==
    {[i \in 1..n |-> [normalize_one(Summary(i, IF i = 1 THEN d ELSE NoDoi))
                         EXCEPT !.enriched = TRUE]] : n \in 0..2, d \in {NoDoi, DoiA}}

WriterUpdateBatches ==
    {[i \in 1..n |-> [normalize_one(Summary(2 + i, NoDoi)) EXCEPT !.page_id = i]] :
        n \in 0..2}

InitWriter ==
    /\ \E dry \in BOOLEAN : cfg = get_config(FullEnviron("gemini"), MaxTarget, dry)
    /\ enriched_new \in WriterCreateBatches
    /\ to_create = [i \in DOMAIN enriched_new |-> [enriched_new[i] EXCEPT !.enriched = FALSE]]
    /\ to_update_final \in WriterUpdateBatches
    /\ store = [i \in DOMAIN to_update_final |-> to_update_final[i].DedupeKey]
    /\ pc = "create"
    /\ remote = <<>> /\ index = <<>>
    /\ esearch_out = [count |-> 0, ids |-> <<>>]
    /\ validation = NoValidation
    /\ quota = "available" /\ run = 1 /\ outcome = "running" /\ faults = 0
    /\ created_before = {} /\ clean_before = TRUE
    /\ new_pmids = <<>> /\ update_pmids = <<>> /\ all_esummary_results = <<>>
    /\ current_retstart = 0 /\ current_fetch_size = 0 /\ page_count = 0
    /\ broke = FALSE
    /\ abstracts_map = {} /\ records = <<>>
    /\ attempt = 0 /\ calls = <<>> /\ requests = <<>>
    /\ create_res = 0 /\ update_res = 0
    /\ NoRecord
    /\ Credentialed
    /\ Direct

\* notion_create_pages(cfg, enriched_new)
WriterCreate ==
    /\ \E answers \in [DOMAIN enriched_new -> WriterReplies] : CreatePagesAnswered(answers)
    /\ UNCHANGED faults

\* notion_update_pages(cfg, to_update_final)
WriterUpdate ==
    /\ \E answers \in [DOMAIN to_update_final -> WriterReplies] : UpdatePagesAnswered(answers)
    /\ UNCHANGED faults

NextWriter == WriterCreate \/ WriterUpdate

SpecWriter == InitWriter /\ [][NextWriter]_vars

\* ------------------------------------------- the create task re-executed
\* notion_create_pages is a task with retries: when session.post raises (no
\* answer from the store after the session's own retries) the exception
\* leaves the task and the task is executed again from its first record.
WriterRetries == 2

\* No answer to any attempt of the request: session.post raises.
ConnectionLost == [i \in 1..(max_retries + 1) |-> 0]

\* One execution of notion_create_pages: the requests answered before the
\* first request that raises, and whether one raised.
create_pages_execution(c, recs, answers) ==
    LET lost == {i \in DOMAIN answers : answers[i] = ConnectionLost}
        k == IF lost = {} \/ c.DRY_RUN THEN Len(recs) + 1
             ELSE CHOOSE i \in lost : \A j \in lost : i <= j
    IN [requests |-> notion_create_pages(c, SubSeq(recs, 1, k - 1),
                                         SubSeq(answers, 1, k - 1)),
        raised |-> k <= Len(recs)]

\* create_res = notion_create_pages(cfg, enriched_new), one execution of the
\* task: it returns, or it raises and is executed again while retries remain;
\* the exception of the last execution leaves the flow.
WriterCreateExecution ==
    /\ pc = "create"
    /\ \E answers \in [DOMAIN enriched_new ->
                           {Answers(0, 200), Answers(0, 400), ConnectionLost}] :
          LET r == create_pages_execution(cfg, enriched_new, answers)
          IN /\ requests' = requests \o r.requests
             /\ store' = store_after_create(store, r.requests)
             /\ IF ~r.raised
                THEN /\ create_res' = written(r.requests)
                     /\ pc' = "update"
                     /\ UNCHANGED <<faults, outcome>>
                ELSE /\ faults' = faults + 1
                     /\ create_res' = create_res
                     /\ IF faults < WriterRetries
                        THEN UNCHANGED <<pc, outcome>>
                        ELSE pc' = "done" /\ outcome' = "raised"
    /\ UNCHANGED <<world, quota, index, esearch_out, validation,
                   loop_locals, record_locals, enrich_locals, update_res>>

NextWriterRetry == WriterCreateExecution \/ WriterUpdate

SpecWriterRetry == InitWriter /\ [][NextWriterRetry]_vars

\* ------------------------------------------------ the enrichment task alone
\* One execution of ai_enrich_records on a batch of new records, with either
\* provider, every call answering on its own: scores around the mid-band, the
\* failure text, the empty answer, or an exception.
ClassifyAnswers ==
    {Returns(Answer(sc, SampleText)) : sc \in {69, 70, 80, 81}}
    \cup {Returns(Answer(0, ANALYSIS_FAILED)), Returns(<<>>),
          Raises("Error"), Raises("ResourceExhausted")}

InitClassify ==
    /\ \E prov \in Providers : cfg = get_config(FullEnviron(prov), MaxTarget, FALSE)
    /\ \E n \in 1..2 : to_create = [i \in 1..n |-> normalize_one(Summary(i, NoDoi))]
    /\ pc = "enrich"
    /\ remote = <<>> /\ store = <<>> /\ index = <<>>
    /\ esearch_out = [count |-> 0, ids |-> <<>>]
    /\ validation = NoValidation
    /\ quota = "available" /\ run = 1 /\ outcome = "running" /\ faults = 0
    /\ created_before = {} /\ clean_before = TRUE
    /\ new_pmids = <<>> /\ update_pmids = <<>> /\ all_esummary_results = <<>>
    /\ current_retstart = 0 /\ current_fetch_size = 0 /\ page_count = 0
    /\ broke = FALSE
    /\ abstracts_map = {} /\ records = <<>>
    /\ to_update_final = <<>> /\ enriched_new = <<>>
    /\ attempt = 0 /\ calls = <<>> /\ requests = <<>>
    /\ create_res = 0 /\ update_res = 0
    /\ NoRecord
    /\ Credentialed
    /\ Direct

\* enriched_new = ai_enrich_records(to_create, ...), one execution: parsed is
\* the accepted answer of each record appended to the result.
Classify ==
    /\ pc = "enrich"
    /\ \E script \in [DOMAIN to_create -> [1..3 -> ClassifyAnswers]] :
          LET r == ai_enrich_records(to_create, environ, cfg.AI_PROVIDER, script)
          IN /\ calls' = r.calls
             /\ to_create' = r.records
             /\ parsed' = r.parsed
             /\ attempt' = attempt + 1
             /\ IF r.raised = "none"
                THEN /\ enriched_new' = r.enriched
                     /\ pc' = "create"
                     /\ outcome' = outcome
                ELSE /\ enriched_new' = enriched_new
                     /\ pc' = "raised"
                     /\ outcome' = "raised"
    /\ UNCHANGED <<remote, cfg, run, created_before, clean_before, esummary_json,
                   efetch_data, record, props, responses, store, quota, faults, index,
                   esearch_out, validation, loop_locals, abstracts_map, records,
                   to_update_final, writer>>

NextClassify == Classify

SpecClassify == InitClassify /\ [][NextClassify]_vars

\* --------------------------------------- from the enrichment to the store
\* One batch of new records classified and handed to notion_create_pages
\* (literature_flow lines 196-202): two records without DOI, or one record
\* whose DOI is longer than the store's text limit, or one record in a dry run.
InitCreateAll ==
    /\ \E prov \in Providers, n \in 1..2, doi \in {NoDoi, DoiLong}, dry \in BOOLEAN :
          /\ n = 2 => doi = NoDoi /\ ~dry
          /\ doi = DoiLong => ~dry
          /\ cfg = get_config(FullEnviron(prov), MaxTarget, dry)
          /\ to_create = [i \in 1..n |-> normalize_one(Summary(i, IF i = 1 THEN doi ELSE NoDoi))]
    /\ pc = "enrich"
    /\ remote = <<>> /\ store = <<>> /\ index = <<>>
    /\ esearch_out = [count |-> 0, ids |-> <<>>]
    /\ validation = NoValidation
    /\ quota = "available" /\ run = 1 /\ outcome = "running" /\ faults = 0
    /\ created_before = {} /\ clean_before = TRUE
    /\ new_pmids = <<>> /\ update_pmids = <<>> /\ all_esummary_results = <<>>
    /\ current_retstart = 0 /\ current_fetch_size = 0 /\ page_count = 0
    /\ broke = FALSE
    /\ abstracts_map = {} /\ records = <<>>
    /\ to_update_final = <<>> /\ enriched_new = <<>>
    /\ attempt = 0 /\ calls = <<>> /\ requests = <<>>
    /\ create_res = 0 /\ update_res = 0
    /\ NoRecord
    /\ Credentialed
    /\ Direct

NextCreateAll == Classify \/ CreatePages

SpecCreateAll == InitCreateAll /\ [][NextCreateAll]_vars

\* ------------------------------------- the enrichment task, text to record
\* One execution of ai_enrich_records followed from the text of the provider's
\* responses to the updated records.
Quoted(t) == QUOTE \o t \o QUOTE

\* The text of a response with the given answer.
ResponseText(score, why, methods, types) ==
    LBRACE \o Quoted(KeyTexts["RelevanceScore"]) \o COLON \o SPACE \o Digits(score)
    \o COMMA \o SPACE \o Quoted(KeyTexts["WhyRelevant"]) \o COLON \o SPACE \o Quoted(why)
    \o COMMA \o SPACE \o Quoted(KeyTexts["Methods"]) \o COLON \o SPACE \o Quoted(methods)
    \o COMMA \o SPACE \o Quoted(KeyTexts["DataTypes"]) \o COLON \o SPACE \o Quoted(types)
    \o RBRACE

WhyAffirmative == <<72, 105, 103, 104, 108, 121, 32, 82, 101, 108, 101, 118, 97, 110, 116>>      \* "Highly Relevant"
WhyNoAbstract == <<78, 111, 116, 32, 114, 101, 108, 101, 118, 97, 110, 116, 58, 32, 78, 111, 32, 65, 98, 115, 116, 114, 97, 99, 116>>       \* "Not relevant: No Abstract"
MethodsKeyword == <<49, 48, 120, 32, 86, 105, 115, 105, 117, 109>>      \* "10x Visium"
TypesAmbiguous == <<115, 99, 65, 84, 65, 67, 45, 115, 101, 113, 59, 32, 82, 78, 65>>      \* "scATAC-seq; RNA"
TypesPlain == <<86, 105, 115, 105, 117, 109, 44, 32, 118, 105, 115, 105, 117, 109>>          \* "Visium, visium"
Prose == <<73, 32, 99, 97, 110, 110, 111, 116, 32, 97, 110, 115, 119, 101, 114, 46>>              \* "I cannot answer."

GoodText == ResponseText(90, WhyAffirmative, MethodsKeyword, TypesPlain)

\* A response cut off after any number of characters.
Truncations(t) == {SubSeq(t, 1, n) : n \in 0..Len(t)}

\* A complete response inside a Markdown fence, and one cut off inside it.
Fenced(t) == FENCE_JSON \o <<10>> \o t \o <<10>> \o FENCE

ResponseAnswers ==
    {ResponseText(sc, why, m, ty) :
        sc \in {0, 50, 69, 70, 79, 80, 85, 86},
        why \in {WhyAffirmative, WhyNoAbstract, SampleText},
        m \in {<<>>, MethodsKeyword},
        ty \in {<<>>, TypesAmbiguous}}

\* The iteration orders of KNOWN_DATA_TYPES followed: as listed, and reversed.
reversed(q) == [i \in DOMAIN q |-> q[Len(q) + 1 - i]]
KnownOrders == {KNOWN_DATA_TYPES, reversed(KNOWN_DATA_TYPES)}

ResponseRecord(i, title) == with_dedupe_key(summary_record(SummaryEntry(i, title, NoDoi)))

FullTextMaps ==
    {<<>>, Digits(1) :> [full_text |-> SampleText], Digits(1) :> [full_text |-> <<>>]}

\* the batch and what is idle
ResponseBatch(n, title) ==
    /\ to_create = [i \in 1..n |-> normalize_one(Summary(i, NoDoi))]
    /\ record = [i \in 1..n |-> ResponseRecord(i, IF i = 1 THEN title ELSE SampleText)]
    /\ pc = "enrich"
    /\ remote = <<>> /\ store = <<>> /\ index = <<>>
    /\ esearch_out = [count |-> 0, ids |-> <<>>]
    /\ validation = NoValidation
    /\ quota = "available" /\ run = 1 /\ outcome = "running" /\ faults = 0
    /\ created_before = {} /\ clean_before = TRUE
    /\ new_pmids = <<>> /\ update_pmids = <<>> /\ all_esummary_results = <<>>
    /\ current_retstart = 0 /\ current_fetch_size = 0 /\ page_count = 0
    /\ broke = FALSE
    /\ abstracts_map = {} /\ records = <<>>
    /\ to_update_final = <<>> /\ enriched_new = <<>>
    /\ attempt = 0 /\ calls = <<>> /\ requests = <<>>
    /\ create_res = 0 /\ update_res = 0
    /\ esummary_json = <<>> /\ efetch_data = <<>> /\ parsed = <<>> /\ props = <<>>

\* One record answered with a cut-off or fenced response; the escalation
\* model, when it is asked, answers in full.
InitTruncated ==
    /\ \E prov \in Providers : cfg = get_config(FullEnviron(prov), MaxTarget, FALSE)
    /\ \E title \in {<<>>, SampleText} : ResponseBatch(1, title)
    /\ \E t \in Truncations(GoodText) \cup {Fenced(GoodText), Prose}
                \cup {SubSeq(Fenced(GoodText), 1, n) : n \in {20, 40}} :
          raw_json = <<<<t, GoodText, GoodText>>>>
    /\ pmc_fulltext_map = <<>>
    /\ pmc_answers = <<>>

\* One record answered in full, with every answer of ResponseAnswers.
InitAnswered ==
    /\ \E prov \in Providers : cfg = get_config(FullEnviron(prov), MaxTarget, FALSE)
    /\ ResponseBatch(1, SampleText)
    /\ \E t \in ResponseAnswers : raw_json = <<<<t, t, t>>>>
    /\ pmc_fulltext_map \in FullTextMaps
    /\ pmc_answers = <<>>

\* Two records; the responses for the first are unusable, empty or complete.
InitBatch ==
    /\ \E prov \in Providers : cfg = get_config(FullEnviron(prov), MaxTarget, FALSE)
    /\ ResponseBatch(2, SampleText)
    /\ \E t \in {Prose, <<>>, SubSeq(GoodText, 1, 30), GoodText}, e \in {Prose, GoodText} :
          raw_json = <<<<t, e, e>>, <<GoodText, GoodText, GoodText>>>>
    /\ pmc_fulltext_map = <<>>
    /\ pmc_answers = <<>>

InitResponse ==
    /\ InitTruncated \/ InitAnswered \/ InitBatch
    /\ Credentialed
    /\ Direct

\* full_text_used (lines 338-346)
full_text_used(pmid) ==
    /\ pmid \in DOMAIN pmc_fulltext_map
    /\ pmc_fulltext_map[pmid].full_text # <<>>

\* enriched_new = ai_enrich_records(to_create, ...), one execution, each call
\* answered with the text of raw_json; the records enriched before an exception
\* have been updated in place.
EnrichResponses ==
    /\ pc = "enrich"
    /\ \E order \in KnownOrders :
          LET provider == cfg.AI_PROVIDER
              script == [i \in DOMAIN to_create |->
                            [j \in 1..3 |-> call_api(provider, raw_json[i][j])]]
              r == ai_enrich_records(to_create, environ, provider, script)
          IN /\ calls' = r.calls
             /\ to_create' = r.records
             /\ parsed' = r.parsed
             /\ record' = [i \in DOMAIN record |->
                              IF i <= Len(r.parsed)
                              THEN enriched_record(record[i], r.parsed[i], provider,
                                                   full_text_used(record[i].PMID), order)
                              ELSE record[i]]
             /\ attempt' = attempt + 1
             /\ IF r.raised = "none"
                THEN /\ enriched_new' = r.enriched
                     /\ pc' = "create"
                     /\ outcome' = outcome
                ELSE /\ enriched_new' = enriched_new
                     /\ pc' = "raised"
                     /\ outcome' = "raised"
    /\ UNCHANGED <<remote, cfg, run, created_before, clean_before, esummary_json,
                   efetch_data, props, responses, store, quota, faults, index,
                   esearch_out, validation, loop_locals, abstracts_map, records,
                   to_update_final, writer>>

NextResponse == EnrichResponses

SpecResponse == InitResponse /\ [][NextResponse]_vars

\* ------------------------------------------------ full text, best effort
\* fetch_pmc_fulltext and the text the enrichment task analyses.
PMC == <<80, 77, 67>>
pmc_batch_size == 50

FULL_TEXT_HEADER == <<65, 110, 97, 108, 121, 115, 105, 115, 32, 98, 97, 115, 101, 100, 32, 111, 110, 32, 70, 117, 108, 108, 32, 84, 101, 120, 116, 32, 40, 65, 98, 115, 116, 114, 97, 99, 116, 32, 43, 32, 77, 101, 116, 104, 111, 100, 115, 32, 43, 32, 82, 101, 115, 117, 108, 116, 115, 32, 43, 32, 68, 97, 116, 97, 47, 67, 111, 100, 101, 32, 65, 118, 97, 105, 108, 97, 98, 105, 108, 105, 116, 121, 41, 58, 92, 110, 92, 110>>
ABSTRACT_HEADER == <<65, 110, 97, 108, 121, 115, 105, 115, 32, 98, 97, 115, 101, 100, 32, 111, 110, 32, 65, 98, 115, 116, 114, 97, 99, 116, 58, 92, 110, 92, 110>>
TITLE_HEADER == <<84, 105, 116, 108, 101, 58, 32>>
NO_ABSTRACT_NOTE == <<92, 110, 92, 110, 40, 78, 111, 32, 65, 98, 115, 116, 114, 97, 99, 116, 32, 65, 118, 97, 105, 108, 97, 98, 108, 101, 41>>

\* One entry of pubmed_efetch_abstracts_by_ids' map, in insertion order; a
\* missing PMCID or Abstract is None, written as the empty text.
AbstractsEntry(i, pmcid, abstract) ==
    [PMID |-> Digits(i), PMCID |-> pmcid, Abstract |-> abstract]

\* The entries that carry a PMCID.
with_pmcid(efetch_map) == {i \in DOMAIN efetch_map : efetch_map[i].PMCID # <<>>}

\* pmcid_to_pmid (lines 207-211): a later entry with the same PMCID overwrites
\* the earlier one.
pmcid_to_pmid(efetch_map) ==
    LET with == with_pmcid(efetch_map)
    IN [k \in {efetch_map[i].PMCID : i \in with} |->
           efetch_map[CHOOSE i \in with :
                         /\ efetch_map[i].PMCID = k
                         /\ \A j \in with : efetch_map[j].PMCID = k => j <= i].PMID]

\* list(pmcid_to_pmid.keys()): the PMCIDs in the order of their first insertion.
pmcids(efetch_map) ==
    LET with == with_pmcid(efetch_map)
        firsts == SelectSeq([i \in DOMAIN efetch_map |-> i],
                            LAMBDA i : /\ i \in with
                                       /\ \A j \in with :
                                             efetch_map[j].PMCID = efetch_map[i].PMCID => i <= j)
    IN [k \in DOMAIN firsts |-> efetch_map[firsts[k]].PMCID]

\* range(0, len(pmcids), batch_size) and pmcids[i : i + batch_size]
pmc_batches(ids) == (Len(ids) + pmc_batch_size - 1) \div pmc_batch_size
pmc_batch(ids, b) ==
    SubSeq(ids, pmc_batch_size * (b - 1) + 1, Min(pmc_batch_size * b, Len(ids)))

\* pmc_utils.extract_pmc_sections: the sections found, joined by a blank line;
\* the empty text when there is none.
extract_pmc_sections(sections) == join(sections, <<10, 10>>)

\* The article id of a response made a PMCID (lines 236-239).
article_pmcid(id) == IF startswith(id, PMC) THEN id ELSE PMC \o id

\* The try block of one batch (lines 229-247) after a response that parsed:
\* every article whose PMCID was asked for is entered under its PMID, a later
\* article over an earlier one; an article without an id is skipped.
batch_results(results, map, articles) ==
    LET hit == {k \in DOMAIN articles :
                   /\ articles[k].id # <<>>
                   /\ article_pmcid(articles[k].id) \in DOMAIN map}
        pmid_of(k) == map[article_pmcid(articles[k].id)]
        last(p) == CHOOSE k \in hit : pmid_of(k) = p /\ \A j \in hit : pmid_of(j) = p => j <= k
    IN [p \in DOMAIN results \cup {pmid_of(k) : k \in hit} |->
           IF \E k \in hit : pmid_of(k) = p
           THEN [full_text |-> extract_pmc_sections(articles[last(p)].sections),
                 pmcid |-> article_pmcid(articles[last(p)].id), used |-> TRUE]
           ELSE results[p]]

\* Variant of fetch_from: a failing batch discards the results so far.
RECURSIVE fetch_from_discarding(_, _, _, _)
fetch_from_discarding(map, answers, b, results) ==
    IF b > Len(answers) THEN results
    ELSE fetch_from_discarding(map, answers, b + 1,
                    IF answers[b].raises THEN <<>>
                    ELSE batch_results(results, map, answers[b].articles))

\* The loop over the batches from batch b on: a batch whose request or whose
\* parsing raises is logged and the loop goes on with the results so far.
RECURSIVE fetch_from(_, _, _, _)
fetch_from(map, answers, b, results) ==
    IF b > Len(answers) THEN results
    ELSE fetch_from(map, answers, b + 1,
                    IF answers[b].raises THEN results
                    ELSE batch_results(results, map, answers[b].articles))

\* pubmed_tasks.fetch_pmc_fulltext (lines 202-251); answers[b] is what PubMed
\* Central does with the request of batch b.
fetch_pmc_fulltext(c, efetch_map, answers) ==
    LET map == pmcid_to_pmid(efetch_map)
    IN IF DOMAIN map = {} THEN <<>> ELSE fetch_from(map, answers, 1, <<>>)

\* enrichment.ai_enrich_records lines 338-353: the text handed to the provider.
text_to_analyze(rec, fulltext_map, efetch_map) ==
    LET pmid == rec.PMID
        entries == {i \in DOMAIN efetch_map : efetch_map[i].PMID = pmid}
        abstract_text == IF entries = {} THEN <<>>
                         ELSE efetch_map[CHOOSE i \in entries : \A j \in entries : j <= i].Abstract
    IN IF pmid \in DOMAIN fulltext_map /\ fulltext_map[pmid].full_text # <<>>
       THEN FULL_TEXT_HEADER \o fulltext_map[pmid].full_text
       ELSE IF abstract_text = <<>>
       THEN TITLE_HEADER \o rec.Title \o NO_ABSTRACT_NOTE
       ELSE ABSTRACT_HEADER \o abstract_text

\* What PubMed Central answers to the request of a batch: an error (connection,
\* status or unparsable body), or articles: one per id asked for, the ids with
\* or without the "PMC" prefix, the first article without sections or left out.
PmcAnswerKinds == {"error", "full", "bare_ids", "blank_first", "omits_first"}

bare(pmcid) == IF startswith(pmcid, PMC) THEN SubSeq(pmcid, 4, Len(pmcid)) ELSE pmcid

PmcAnswer(batch, kind) ==
    LET all == [k \in DOMAIN batch |->
                   [id |-> IF kind = "bare_ids" THEN bare(batch[k]) ELSE batch[k],
                    sections |-> IF kind = "blank_first" /\ k = 1 THEN <<>>
                                 ELSE <<SampleText, SampleText>>]]
    IN [raises |-> kind = "error",
        articles |-> IF kind = "error" THEN <<>>
                     ELSE IF kind = "omits_first" THEN Tail(all) ELSE all]

\* n new items; the items of lacking carry no PMCID; the first may have no
\* abstract and no title.
FullTextSizes == {2, pmc_batch_size + 1, pmc_batch_size + 2}

InitFullText ==
    /\ \E prov \in Providers : cfg = get_config(FullEnviron(prov), MaxTarget, FALSE)
    /\ \E n \in FullTextSizes, title \in {<<>>, SampleText}, abstract \in {<<>>, SampleText} :
          /\ title = <<>> => abstract = <<>>
          /\ \E lacking \in {{}, {1}, 1..n} :
                efetch_data = [i \in 1..n |->
                                  AbstractsEntry(i, IF i \in lacking THEN <<>> ELSE PMC \o Digits(i),
                                                 IF i = 1 THEN abstract ELSE SampleText)]
          /\ to_create = [i \in 1..n |-> normalize_one(Summary(i, NoDoi))]
          /\ record = [i \in 1..n |-> ResponseRecord(i, IF i = 1 THEN title ELSE SampleText)]
    /\ \E kinds \in [1..pmc_batches(pmcids(efetch_data)) -> PmcAnswerKinds] :
          pmc_answers = [b \in DOMAIN kinds |->
                            PmcAnswer(pmc_batch(pmcids(efetch_data), b), kinds[b])]
    /\ pc = "fulltext"
    /\ remote = <<>> /\ store = <<>> /\ index = <<>>
    /\ esearch_out = [count |-> 0, ids |-> <<>>]
    /\ validation = NoValidation
    /\ quota = "available" /\ run = 1 /\ outcome = "running" /\ faults = 0
    /\ created_before = {} /\ clean_before = TRUE
    /\ new_pmids = <<>> /\ update_pmids = <<>> /\ all_esummary_results = <<>>
    /\ current_retstart = 0 /\ current_fetch_size = 0 /\ page_count = 0
    /\ broke = FALSE
    /\ abstracts_map = {} /\ records = <<>>
    /\ to_update_final = <<>> /\ enriched_new = <<>>
    /\ attempt = 0 /\ calls = <<>> /\ requests = <<>>
    /\ create_res = 0 /\ update_res = 0
    /\ esummary_json = <<>> /\ parsed = <<>> /\ props = <<>>
    /\ raw_json = <<>>
    /\ pmc_fulltext_map = <<>>
    /\ Credentialed
    /\ Direct

\* literature_flow step 4, lines 158-165: the full text is asked for when an
\* entry of the abstracts map carries a PMCID.
FetchFullText ==
    /\ pc = "fulltext"
    /\ pmc_fulltext_map' = IF with_pmcid(efetch_data) = {} THEN <<>>
                           ELSE fetch_pmc_fulltext(cfg, efetch_data, pmc_answers)
    /\ pc' = "enrich"
    /\ UNCHANGED <<remote, cfg, run, created_before, clean_before, esummary_json,
                   efetch_data, parsed, record, props, raw_json, pmc_answers, environ,
                   biweekly,
                   store, quota, outcome, faults, index, esearch_out, validation,
                   loop_locals, record_locals, enrich_locals, writer>>

\* enriched_new = ai_enrich_records(to_create, abstracts_map, pmc_fulltext_map),
\* one execution in which every call answers.
EnrichFullText ==
    /\ pc = "enrich"
    /\ \E order \in KnownOrders :
          LET provider == cfg.AI_PROVIDER
              r == ai_enrich_records(to_create, environ, provider,
                                     Script(Len(to_create), "none", 0))
          IN /\ calls' = r.calls
             /\ to_create' = r.records
             /\ parsed' = r.parsed
             /\ record' = [i \in DOMAIN record |->
                              enriched_record(record[i], r.parsed[i], provider,
                                              full_text_used(record[i].PMID), order)]
             /\ attempt' = attempt + 1
             /\ enriched_new' = r.enriched
             /\ pc' = "create"
    /\ UNCHANGED <<remote, cfg, run, created_before, clean_before, esummary_json,
                   efetch_data, props, responses, store, quota, outcome, faults, index,
                   esearch_out, validation, loop_locals, abstracts_map, records,
                   to_update_final, writer>>

NextFullText == FetchFullText \/ EnrichFullText

SpecFullText == InitFullText /\ [][NextFullText]_vars

\* ------------------------------------------------------- claim vocabulary
\* The dedupe key of a fetched summary: its DOI, else "PMID:" + uid.
DedupeKeyOf(rec) == IF rec.doi = <<>> THEN PMID_PREFIX \o rec.uid ELSE rec.doi

Elems(seq) == {seq[i] : i \in DOMAIN seq}
PmidsOf(seq) == {seq[i].PMID : i \in DOMAIN seq}

Fetched == Elems(all_esummary_results)
FetchedIndexed == {rec \in Fetched : DedupeKeyOf(rec) \in DOMAIN index}
FetchedNew == {rec \in Fetched : DedupeKeyOf(rec) \notin DOMAIN index}

CreateRequests == {requests[i] : i \in {j \in DOMAIN requests : requests[j].op = "create"}}
UpdateRequests == {requests[i] : i \in {j \in DOMAIN requests : requests[j].op = "update"}}

AfterLoop == pc \in {"efetch", "normalize", "enrich", "create", "update"}

\* C1 -- No duplicate creation: an item of a fetched page whose dedupe key is
\* a key of the index built at the start of the run is never in new_pmids,
\* never in to_create, never enriched for creation and never the subject of a
\* create-page request.
C1_NoDuplicateCreation ==
    \A rec \in FetchedIndexed :
        /\ rec.uid \notin Elems(new_pmids)
        /\ rec.uid \notin PmidsOf(to_create)
        /\ rec.uid \notin PmidsOf(enriched_new)
        /\ rec.uid \notin {q.PMID : q \in CreateRequests}

\* A run that fetched an already indexed item and created a page for another.
C1_Witness == FetchedIndexed # {} /\ CreateRequests # {}

\* C2 -- Target-count upper bound: the new_pmids handed to document fetch and
\* enrichment, and what is derived from it, never exceed T = cfg.RETMAX.
C2_TargetUpperBound ==
    AfterLoop =>
        /\ Len(new_pmids) <= cfg.RETMAX
        /\ Cardinality(abstracts_map) <= cfg.RETMAX
        /\ Len(to_create) <= cfg.RETMAX
        /\ Len(enriched_new) <= cfg.RETMAX

\* The last fetched page pushed the number of new items past T.
C2_Witness ==
    /\ pc = "efetch"
    /\ cfg.RETMAX > 0
    /\ Cardinality(FetchedNew) > cfg.RETMAX
    /\ Len(new_pmids) = cfg.RETMAX

C4_ExistingNeverEnriched ==
    /\ \A r \in Elems(to_create) :
          r.PMID \in Elems(new_pmids) /\ r.PMID \notin PmidsOf(update_pmids)
    /\ \A c \in Elems(calls) :
          /\ c.PMID \in Elems(new_pmids)
          /\ c.PMID \notin PmidsOf(update_pmids)
          /\ c.PMID \notin PmidsOf(to_update_final)
          /\ c.PMID \notin {rec.uid : rec \in FetchedIndexed}

\* A run with existing items to update whose new items were classified.
C4_Witness == calls # <<>> /\ to_update_final # <<>> /\ pc = "create"

\* C5 -- Quota exhaustion aborts the whole batch: a classification call that
\* raised ResourceExhausted is the last classification call of the run, and a
\* run with such a call issues no create-page call.
C5_QuotaAbortsBatch ==
    \A i \in DOMAIN calls :
        calls[i].result = "ResourceExhausted" =>
            /\ i = Len(calls)
            /\ CreateRequests = {}

\* C6 -- A run whose enrichment ended on quota exhaustion ends in a failure
\* outcome, unlike a normal completion and unlike the stop on no results.
C6_QuotaRunFails ==
    (pc = "done" /\ calls # <<>> /\ calls[Len(calls)].result = "ResourceExhausted") =>
        outcome = "raised"

\* C7 -- Scenario A: with count = 0 the flow stops right after validation:
\* it returns without fetching a page and without a store request.
C7_ZeroCountStops ==
    (pc \notin {"index", "search"} /\ validation.count = 0) =>
        /\ pc = "done"
        /\ outcome = "returned"
        /\ page_count = 0
        /\ requests = <<>>

\* The stop happened with a non-empty index.
C7_Witness ==
    /\ pc = "done"
    /\ validation.status = "ALERT"
    /\ validation.count = 0
    /\ index # <<>>

\* Scenario B: target 25, and a first page of 25 items of which 10 are not in
\* the index.
ScenarioB ==
    /\ cfg.RETMAX = BiweeklyTarget
    /\ Len(all_esummary_results) >= BiweeklyTarget
    /\ Cardinality({i \in 1..BiweeklyTarget :
           DedupeKeyOf(all_esummary_results[i]) \notin DOMAIN index}) = 10

LoopEnded == pc \notin {"index", "search", "paginate"}

\* The run ended in the loop, on a page fetch that raised.
PageFetchRaised == pc = "done" /\ outcome = "raised" /\ records = <<>>

\* C8 -- as stated: in Scenario B with more than 25 items upstream and no
\* failing response, the loop fetches a second page and ends only with 25 new
\* items or with the offset at the end of the result set.
C8_UntilTargetOrExhausted ==
    (ScenarioB /\ LoopEnded /\ faults = 0 /\ validation.count > BiweeklyTarget) =>
        /\ page_count >= 2
        /\ Len(new_pmids) >= BiweeklyTarget \/ current_retstart >= validation.count

\* C8 -- Scenario B: with more than 25 items upstream the loop attempts a
\* second page, and it ends only with 25 new items, with the offset at the end
\* of the result set, with max_pages pages fetched, or on a page fetch that
\* failed or returned nothing.
C8_UntilTargetExhaustedOrCeiling ==
    (ScenarioB /\ LoopEnded /\ validation.count > BiweeklyTarget) =>
        /\ page_count >= 2
        /\ \/ Len(new_pmids) >= BiweeklyTarget
           \/ current_retstart >= validation.count
           \/ page_count >= max_pages
           \/ broke
           \/ PageFetchRaised

\* Scenario B ended by the page ceiling, short of the target and of the end.
C8_Witness ==
    /\ ScenarioB
    /\ pc = "done"
    /\ faults = 0
    /\ page_count = max_pages
    /\ Len(new_pmids) < BiweeklyTarget
    /\ current_retstart < validation.count

\* The first page of IDs holds none of the canary identifiers.
NoCanaryInFirstPage ==
    \A g \in cfg.GOLD_SET : \A i \in DOMAIN validation.ids : validation.ids[i] # g

OutOfRange ==
    \/ validation.count = 0
    \/ 2 * validation.count < cfg.HISTORICAL_MEDIAN
    \/ validation.count > 2 * cfg.HISTORICAL_MEDIAN

\* C9 -- as stated: the status is ALERT exactly when the count is 0, below
\* half the median or above twice the median, or no canary identifier is in
\* the first page of IDs; otherwise OK.
C9_AlertIffNoCanary ==
    pc = "validated" =>
        /\ validation.status \in {"OK", "ALERT"}
        /\ validation.status = "ALERT" <=> (OutOfRange \/ NoCanaryInFirstPage)

\* C9 -- validate_results returns ALERT exactly when the count is 0, below
\* half the median or above twice the median, or GOLD_SET is not empty and
\* none of its identifiers is in the first page of IDs; otherwise OK.
C9_AlertIffCanaryMissing ==
    pc = "validated" =>
        /\ validation.status \in {"OK", "ALERT"}
        /\ validation.status = "ALERT" <=>
              (OutOfRange \/ (cfg.GOLD_SET # {} /\ NoCanaryInFirstPage))

\* test_validate_results_ok: an empty GOLD_SET and a count in range are OK.
C9_Witness ==
    /\ pc = "validated"
    /\ cfg.GOLD_SET = {}
    /\ ~OutOfRange
    /\ validation.status = "OK"

\* C10 -- The validator is side-channel only: with count > 0 and a positive
\* target the flow enters the pagination loop and fetches a page whatever the
\* validation status, and a run without a failing response issues a store
\* request for every item it kept, new or existing.
C10_ValidatorSideChannel ==
    (pc \notin {"index", "search"} /\ validation.count > 0 /\ cfg.RETMAX > 0) =>
        /\ validation.status \in {"OK", "ALERT"}
        /\ pc = "paginate" \/ page_count >= 1
        /\ (pc = "done" /\ faults = 0 /\ ~cfg.DRY_RUN) =>
              {q.PMID : q \in CreateRequests \cup UpdateRequests}
                  = Elems(new_pmids) \cup PmidsOf(update_pmids)

\* Scenario C: count 40 against the median 500 is an ALERT, and the 40 items
\* were processed.
C10_Witness ==
    /\ validation.status = "ALERT"
    /\ validation.count = 40
    /\ pc = "done"
    /\ Len(requests) = 40

\* A DOI of the registered form "10.<registrant>/<suffix>".
RealDoi(d) == Len(d) >= 3 /\ SubSeq(d, 1, 3) = <<49, 48, 46>>

\* C11 -- Dedupe-key policy: the key of every record is its DOI when that is
\* neither empty nor blank, and "PMID:" + pmid otherwise; and a synthesized
\* key never equals the key of a record with a real DOI.
C11_DedupeKeyPolicy ==
    pc # "summary" =>
        \A i \in DOMAIN record :
            /\ record[i].DedupeKey =
                  (IF strip(esummary_json[i].doi) # <<>> THEN esummary_json[i].doi
                   ELSE PMID_PREFIX \o esummary_json[i].uid)
            /\ \A j \in DOMAIN record :
                  (strip(esummary_json[i].doi) = <<>> /\ RealDoi(esummary_json[j].doi))
                      => record[i].DedupeKey # record[j].DedupeKey

\* C12 -- Scenario D: when the summary of a record has no DOI and its fetched
\* document supplies one, the merged record's DedupeKey is that DOI, the same
\* key as that of any other record with this DOI.
C12_LaterDoiBecomesKey ==
    (pc # "summary" /\ efetch_data # <<>> /\ esummary_json[1].doi = NoDoi
        /\ Get(efetch_data, "doi") # NoDoi) =>
        /\ record[1].DedupeKey = efetch_data.doi
        /\ \A j \in DOMAIN record :
              record[j].DOI = efetch_data.doi => record[j].DedupeKey = record[1].DedupeKey

Built == pc \in {"create_payload", "update_payload"}

\* A property whose value is null, an empty text or an empty list.
IsBlankProperty(v) ==
    \/ "rich_text" \in DOMAIN v /\ (v.rich_text = <<>> \/ v.rich_text[1] = <<>>)
    \/ "multi_select" \in DOMAIN v /\ v.multi_select = <<>>
    \/ "url" \in DOMAIN v /\ v.url = <<>>

\* C13 -- Empty-optional-field omission: the generated properties hold no
\* property whose value is null, an empty text or an empty list.
C13_NoBlankProperty ==
    Built => \A k \in DOMAIN props : ~IsBlankProperty(props[k])

\* C14 -- Every non-empty field of the record is mapped: a record with a
\* non-empty Group gets a Group rich_text property with that content.
C14_GroupMapped ==
    (Built /\ Get(record[1], "Group") # <<>>) =>
        /\ "Group" \in DOMAIN props
        /\ props["Group"] = rich_text(record[1].Group)

\* The properties that carry enrichment values.
EnrichmentProps ==
    {"RelevanceScore", "PipelineConfidence", "FullTextUsed", "StudySummary",
     "WhyRelevant", "Methods", "KeyFindings", "DataTypes"}

\* C15 -- Enrichment properties are written only for enriched records: no
\* record routed to notion_update_pages is enriched, and the payload of every
\* update-page request holds none of the enrichment properties.
C15_UpdateWritesNoEnrichment ==
    /\ \A r \in Elems(to_update_final) : ~r.enriched
    /\ \A q \in UpdateRequests : q.props \cap EnrichmentProps = {}

\* A run that updated an existing item and created an enriched one whose
\* payload carries the enrichment properties.
C15_Witness ==
    /\ UpdateRequests # {}
    /\ \E q \in CreateRequests : EnrichmentProps \subseteq q.props

\* The requests of one writer task, in the order they were issued.
RequestsOf(op) == SelectSeq(requests, LAMBDA q : q.op = op)

\* The task has attempted every record of its batch, in order.
AllAttempted(op, recs) == PmidsOf(RequestsOf(op)) = PmidsOf(recs)

CountSucceeded(op) == Cardinality({i \in DOMAIN RequestsOf(op) : Succeeded(RequestsOf(op)[i].status)})

C17_RateLimitedWriteRetried ==
    \A i \in DOMAIN requests : requests[i].status # 429

\* C18 -- Dry-run mode: with cfg["DRY_RUN"] true no create-page or update-page
\* request is issued, for any batch.
C18_DryRunIssuesNothing ==
    cfg.DRY_RUN => requests = <<>> /\ create_res = 0 /\ update_res = 0

\* A dry run in which both tasks returned, each handed a batch of two records.
C18_Witness ==
    /\ cfg.DRY_RUN
    /\ pc = "done"
    /\ Len(enriched_new) = 2 /\ Len(to_update_final) = 2

\* The classification calls made for the record pmid, in order.
CallsOf(pmid) == SelectSeq(calls, LAMBDA c : c.PMID = pmid)

ModelsOf(pmid) == [i \in DOMAIN CallsOf(pmid) |-> CallsOf(pmid)[i].model]

InBand(p) == 70 <= rel_score(p) /\ rel_score(p) <= 80

\* The default model answered the record pmid, first == TRUE, or failed on it.
DefaultReturned(pmid) == CallsOf(pmid) # <<>> /\ CallsOf(pmid)[1].result = "ok"
DefaultRaised(pmid) == CallsOf(pmid) # <<>> /\ CallsOf(pmid)[1].result # "ok"

\* The second call made for pmid returned an answer.
SecondReturned(pmid) == Len(CallsOf(pmid)) >= 2 /\ CallsOf(pmid)[2].result = "ok"

\* The position of pmid in the task's result, 0 when it is not in it.
EnrichedAt(pmid) ==
    IF \E i \in DOMAIN enriched_new : enriched_new[i].PMID = pmid
    THEN CHOOSE i \in DOMAIN enriched_new : enriched_new[i].PMID = pmid
    ELSE 0

TruncatedMidString ==
    /\ raw_json # <<>>
    /\ raw_json[1][1] \in Truncations(GoodText) \ {GoodText}
    /\ count(raw_json[1][1], QUOTE) % 2 = 1

\* The first record carries the mark of a repaired response.
Marked == startswith(record[1].Title, TRCT_TITLE)

\* The truncation repair produced the answer accepted for the first record.
RepairProduced ==
    /\ parsed # <<>>
    /\ "__TRUNCATED__" \in DOMAIN parsed[1]

\* C21 -- Malformed-JSON resilience: when the response was cut off inside a
\* string, the enrichment task returns without raising and the record's Title
\* carries the prefix "trct-title:"; and a record carries the prefix only when
\* the truncation repair produced its answer.
C21_TruncatedResponseRepaired ==
    pc # "enrich" =>
        /\ TruncatedMidString => pc = "create" /\ Marked
        /\ Marked => RepairProduced

\* No response for record i can be parsed, by any stage.
Unparsable(i) ==
    /\ raw_json # <<>>
    /\ \A j \in 1..3 : Failed(call_api(cfg.AI_PROVIDER, raw_json[i][j]))

\* C22 -- Unrepairable response: when no response for a record can be parsed,
\* the task still returns every record of the batch, and that record holds the
\* defaults: RelevanceScore 0 and the explanatory WhyRelevant.
C22_UnparsableFallsBack ==
    (pc # "enrich" /\ raw_json # <<>>) =>
        \A i \in DOMAIN record :
            Unparsable(i) =>
                /\ pc = "create"
                /\ PmidsOf(enriched_new) = PmidsOf(to_create)
                /\ Get(record[i], "RelevanceScore") = 0
                /\ Get(record[i], "WhyRelevant") = ANALYSIS_FAILED

\* The records the enrichment task has updated (rec.update, line 499).
Updated == {i \in DOMAIN record : pc # "enrich" /\ i <= Len(parsed)}

\* C23 -- Self-correction invariant: every updated record whose WhyRelevant
\* contains "relevant" (in any case) and does not contain "no abstract" holds
\* a RelevanceScore other than 0.
C23_AffirmativeNeverZero ==
    raw_json # <<>> =>
        \A i \in Updated :
            (/\ contains(lower(record[i].WhyRelevant), RELEVANT)
             /\ ~contains(lower(record[i].WhyRelevant), NO_ABSTRACT)) =>
                record[i].RelevanceScore # 0

\* The answer "Highly Relevant" came with score 0 and the record holds 50.
C23_Witness ==
    /\ raw_json # <<>>
    /\ \E i \in Updated :
          /\ rel_score(parsed[i]) = 0
          /\ with_defaults(parsed[i]).WhyRelevant = WhyAffirmative
          /\ record[i].RelevanceScore = 50

\* The confidence the three inputs alone would give.
ConfidenceOfThree(r) ==
    IF r.FullTextUsed THEN ConfidenceHigh
    ELSE IF r.RelevanceScore >= 80
            \/ has_strong_keyword(r.Methods) \/ has_strong_keyword(r.KeyFindings)
    THEN ConfidenceMedium
    ELSE ConfidenceLow

\* C29 (as stated) -- PipelineConfidence is a function of the full-text flag,
\* the final score and the presence of a strong keyword alone: High with full
\* text, otherwise Medium for a score of 80 or more or a keyword, otherwise
\* Low, whatever the provider.
C29_ConfidenceOfThreeInputs ==
    raw_json # <<>> =>
        \A i \in Updated : record[i].PipelineConfidence = ConfidenceOfThree(record[i])

\* C29 (amended) -- PipelineConfidence is a function of the provider, the
\* full-text flag, the final score and the presence of a strong keyword: with
\* the openai provider and a final score in 70..85 it is "Medium-Ambiguous",
\* also when full text was used; in every other case it is High with full
\* text, otherwise Medium for a score of 80 or more or a keyword, otherwise Low.
C29_ConfidenceOfProviderAndThree ==
    raw_json # <<>> =>
        \A i \in Updated :
            record[i].PipelineConfidence =
                IF /\ cfg.AI_PROVIDER = "openai"
                   /\ 70 <= record[i].RelevanceScore /\ record[i].RelevanceScore <= 85
                THEN ConfidenceAmbiguous
                ELSE ConfidenceOfThree(record[i])

\* With openai a record classified on its full text with score 85 is tagged
\* "Medium-Ambiguous".
C29_Witness ==
    /\ raw_json # <<>>
    /\ cfg.AI_PROVIDER = "openai"
    /\ \E i \in Updated :
          /\ record[i].FullTextUsed
          /\ record[i].RelevanceScore = 85
          /\ record[i].PipelineConfidence = ConfidenceAmbiguous

\* C30 -- Controlled-vocabulary folding: the DataTypes stored on a record is
\* determined by the DataTypes text of its answer alone; folding the text
\* with the vocabulary taken in its listed order gives it, in whatever order
\* the vocabulary is iterated.
C30_FoldingDetermined ==
    raw_json # <<>> =>
        \A i \in Updated :
            record[i].DataTypes =
                normalized_data_types(with_defaults(parsed[i]).DataTypes, KNOWN_DATA_TYPES)

\* The remote calls of the run so far: the index query, the search, a
\* classification call, a write request.
IndexQueried == pc # "index" /\ cfg.NOTION_TOKEN # <<>> /\ cfg.NOTION_DB_ID # <<>>
Searched == pc \notin {"index", "search"}
RemoteCalled == IndexQueried \/ Searched \/ calls # <<>> \/ requests # <<>>

\* C24 -- Configuration fail-fast: a run for which a credential its mode
\* requires is missing (validate_config finds one) makes no remote call: it
\* does not query the index, search, classify or write.
C24_MissingCredentialFailsFast ==
    validate_config(cfg, environ) # {} => ~RemoteCalled

\* C25 -- Page-fetch failure containment: a summary-page fetch that fails in
\* the pagination loop does not abort the run; no run ends with an exception
\* raised in the loop while items of earlier pages are accumulated.
C25_PageFailureContained ==
    ~(PageFetchRaised /\ all_esummary_results # <<>>)

\* The three conditions of the while loop, on the current state.
LoopConditions ==
    /\ Len(new_pmids) < cfg.RETMAX
    /\ current_retstart < validation.count
    /\ page_count < max_pages

C27_OffsetAndClamp ==
    /\ [](current_retstart <= validation.count)
    /\ [](all_esummary_results = SubSeq(remote, 1, current_retstart))
    /\ [][current_retstart' # current_retstart =>
            /\ page_count' = page_count + 1
            /\ Min(current_fetch_size, validation.count - current_retstart) >= 1
            /\ current_retstart' = current_retstart
                   + Min(current_fetch_size, validation.count - current_retstart)]_vars

\* The second page was clamped: 15 items were left of 40 and the offset is N.
C27_Witness ==
    /\ validation.count = 40
    /\ page_count = 2
    /\ current_retstart = validation.count
    /\ Len(all_esummary_results) = 40

\* C28 -- Page-size schedule: the first page is requested with size T, and the
\* size set for every later page is one fixed size smaller than T.
C28_LaterPagesSmaller ==
    pc = "paginate" =>
        /\ page_count = 0 => current_fetch_size = cfg.RETMAX
        /\ current_retstart > 0 =>
              current_fetch_size = NextPageSize /\ current_fetch_size < cfg.RETMAX

\* C40 -- Bounded classification calls: in one execution of the enrichment
\* task no record is the subject of more than two classification calls.
C40_AtMostTwoCalls ==
    attempt <= 1 => \A pmid \in PmidsOf(to_create) : Len(CallsOf(pmid)) <= 2

\* The batch in which fetch_pmc_fulltext asks for a PMCID.
BatchOf(pmcid) ==
    LET ids == pmcids(efetch_data)
    IN CHOOSE b \in 1..pmc_batches(ids) : \E k \in DOMAIN pmc_batch(ids, b) : pmc_batch(ids, b)[k] = pmcid

\* The answer to batch b carries an article for the PMCID.
Answered(b, pmcid) ==
    \E k \in DOMAIN pmc_answers[b].articles :
        pmc_answers[b].articles[k].id \in {pmcid, bare(pmcid)}

FullTextFetched == pc \in {"enrich", "create"} /\ efetch_data # <<>>

\* C31 -- Full text is best effort: once fetch_pmc_fulltext has run the flow
\* is still running whatever the batches answered; an item without PMCID or
\* in a failed batch has no entry in the result map; an item answered in a
\* batch that did not fail has its entry whatever the other batches did; and a
\* record enriched without an entry has FullTextUsed false and was analysed
\* from its abstract, or from its title when it has no abstract.
C31_FullTextBestEffort ==
    FullTextFetched =>
        /\ outcome = "running"
        /\ \A i \in DOMAIN efetch_data :
              LET e == efetch_data[i]
              IN IF e.PMCID = <<>> THEN e.PMID \notin DOMAIN pmc_fulltext_map
                 ELSE IF pmc_answers[BatchOf(e.PMCID)].raises
                 THEN e.PMID \notin DOMAIN pmc_fulltext_map
                 ELSE Answered(BatchOf(e.PMCID), e.PMCID) => e.PMID \in DOMAIN pmc_fulltext_map
        /\ pc = "create" =>
              \A k \in DOMAIN record :
                  record[k].PMID \notin DOMAIN pmc_fulltext_map =>
                      /\ record[k].FullTextUsed = FALSE
                      /\ LET text == text_to_analyze(record[k], pmc_fulltext_map, efetch_data)
                         IN IF efetch_data[k].Abstract # <<>>
                            THEN text = ABSTRACT_HEADER \o efetch_data[k].Abstract
                            ELSE startswith(text, TITLE_HEADER)

\* Two batches, the first failed and the second answered: the records of the
\* second were analysed from their full text, those of the first were not.
C31_Witness ==
    /\ pc = "create"
    /\ Len(pmc_answers) = 2
    /\ pmc_answers[1].raises /\ ~pmc_answers[2].raises
    /\ \E k \in DOMAIN record : record[k].FullTextUsed = TRUE
    /\ \E k \in DOMAIN record : efetch_data[k].PMCID # <<>> /\ record[k].FullTextUsed = FALSE
    /\ \E k \in DOMAIN record : efetch_data[k].PMCID = <<>> /\ record[k].FullTextUsed = FALSE

\* The index holds exactly the non-empty DedupeKey texts of the pages, each
\* under a page that carries it.
Covers(idx, pages) ==
    /\ DOMAIN idx = {pages[i] : i \in DOMAIN pages} \ {<<>>}
    /\ \A t \in DOMAIN idx : pages[idx[t]] = t

\* Nothing of the search or of the classification of fetched items exists yet.
BeforeSearch ==
    /\ esearch_out.ids = <<>> /\ all_esummary_results = <<>>
    /\ new_pmids = <<>> /\ update_pmids = <<>>

\* The index is assigned once, at the start of the run, and kept.
IndexAssignedOnce ==
    /\ [](pc = "index" => BeforeSearch)
    /\ [][pc # "index" /\ run' = run => pc' # "index" /\ index' = index]_vars

\* C32 as stated -- The index is built once per run, before the search and
\* the classification of any item, from every page of the store: it maps
\* every non-empty stored DedupeKey to a page that carries it, and it is not
\* modified afterwards in the run.
C32_IndexOfEveryStoredKey ==
    /\ IndexAssignedOnce
    /\ [][pc = "index" /\ pc' # "index" => Covers(index', store)]_vars

\* C32 amended -- As stated when the store's token and database id are
\* configured; when one of them is missing the store is not queried and the
\* index is empty for the whole run.
C32_IndexOfEveryStoredKeyWhenConfigured ==
    /\ IndexAssignedOnce
    /\ [][pc = "index" /\ pc' # "index" =>
              IF cfg.NOTION_TOKEN # <<>> /\ cfg.NOTION_DB_ID # <<>>
              THEN Covers(index', store)
              ELSE index' = <<>>]_vars

\* A run that found one page in a store of several answers, created a page
\* and ended with the index it had built.
C32_Witness ==
    /\ pc = "done"
    /\ DOMAIN index # {}
    /\ \E i \in DOMAIN requests : requests[i].op = "create" /\ Succeeded(requests[i].status)
    /\ \E i \in DOMAIN store : store[i] # <<>> /\ store[i] \notin DOMAIN index

\* How often a uid stands in new_pmids and in update_pmids.
TimesNew(uid) == Cardinality({j \in DOMAIN new_pmids : new_pmids[j] = uid})
TimesUpdate(uid) == Cardinality({j \in DOMAIN update_pmids : update_pmids[j].PMID = uid})

\* C36 -- Classification partition: while the loop runs, after every
\* iteration each fetched uid is in all_esummary_results and stands exactly
\* once in new_pmids or in update_pmids, never in both; the two lists together
\* are as long as the number of uids fetched; and every entry of update_pmids
\* carries the provisional key of its item and the page the index holds for it.
C36_ClassificationPartition ==
    pc = "paginate" =>
        /\ \A i \in DOMAIN all_esummary_results :
              TimesNew(all_esummary_results[i].uid) + TimesUpdate(all_esummary_results[i].uid) = 1
        /\ \A i \in 1..current_retstart : \E k \in DOMAIN all_esummary_results :
              all_esummary_results[k] = remote[i]
        /\ Len(new_pmids) + Len(update_pmids) = Len(all_esummary_results)
        /\ Len(all_esummary_results) = current_retstart
        /\ \A j \in DOMAIN update_pmids :
              \E rec \in Fetched :
                  /\ rec.uid = update_pmids[j].PMID
                  /\ update_pmids[j].DedupeKey = provisional_key(rec)
                  /\ update_pmids[j].DedupeKey \in DOMAIN index
                  /\ update_pmids[j].page_id = index[update_pmids[j].DedupeKey]

\* Two pages fetched, items of both kinds found.
C36_Witness ==
    /\ pc = "paginate"
    /\ page_count >= 2
    /\ new_pmids # <<>> /\ update_pmids # <<>>

\* The items classified as new that the trim to the target cut off.
CutOff == {rec \in FetchedNew : LoopEnded /\ rec.uid \notin Elems(new_pmids)}

\* C38 -- Items beyond the target are left alone: an item classified as new
\* and cut off by the trim is not fetched by efetch, not the subject of a
\* classification call, not in to_create, enriched_new or to_update_final and
\* not the subject of a create-page or update-page request, while its summary
\* stays in all_esummary_results and is normalized with the others.
C38_CutOffUntouched ==
    \A rec \in CutOff :
        /\ rec.uid \notin abstracts_map
        /\ CallsOf(rec.uid) = <<>>
        /\ rec.uid \notin PmidsOf(to_create) \cup PmidsOf(enriched_new)
                              \cup PmidsOf(to_update_final)
        /\ \A i \in DOMAIN requests : requests[i].PMID # rec.uid
        /\ records # <<>> => rec.uid \in PmidsOf(records)

\* A run that fetched more new items than its target, normalized all of them
\* and created a page for those within the target.
C38_Witness ==
    /\ pc = "done" /\ outcome = "returned"
    /\ CutOff # {}
    /\ \E rec \in CutOff : rec.uid \in PmidsOf(records)
    /\ CreateRequests # {}

\* The last classification call of the run raised ResourceExhausted: the
\* enrichment task is waiting for its retry or has raised for good.
QuotaExhausted == calls # <<>> /\ calls[Len(calls)].result = "ResourceExhausted"

\* C39 -- No write after a quota abort: a run whose enrichment ended on
\* ResourceExhausted has issued no create-page request and no update-page
\* request, whatever existing items it found.
C39_QuotaAbortWritesNothing ==
    QuotaExhausted => requests = <<>> /\ create_res = 0 /\ update_res = 0

\* The run returned on quota exhaustion with existing items left to update.
C39_Witness ==
    /\ QuotaExhausted
    /\ pc = "done" /\ outcome = "returned"
    /\ to_update_final # <<>>
    /\ ~cfg.DRY_RUN

\* The create-page requests of the run for a record.
CreatesOf(rec) == {q \in CreateRequests : q.PMID = rec.PMID}

\* The next run's index, built from the store as it is now, holds the key
\* the pagination loop looks the item up with: the item is not new again.
FoundByNextRun(rec) ==
    in_index(provisional_key([uid |-> rec.PMID, doi |-> rec.DOI]),
             notion_build_index(cfg, store, 100))

\* notion_create_pages has been called with the enriched records.
CreateCalled == pc = "update" /\ enriched_new # <<>>

SummaryOf(pmid) == CHOOSE s \in Fetched : s.uid = pmid

\* The normalized record of every fetched item carries the key the
\* pagination loop looked the item up with.
NormalizedKeyIsProvisional ==
    \A r \in Elems(records) : r.DedupeKey = provisional_key(SummaryOf(r.PMID))

CreatedTimes(pmid) ==
    Cardinality({i \in DOMAIN requests :
                    /\ requests[i].op = "create"
                    /\ requests[i].PMID = pmid
                    /\ Succeeded(requests[i].status)})

\* C37 -- Each new record is created at most once per run: no record of the
\* create batch is the subject of two accepted create-page requests, also
\* when the create task is executed again after an exception.
C37_CreatedAtMostOnce ==
    \A pmid \in PmidsOf(enriched_new) : CreatedTimes(pmid) <= 1

\* C33 -- The biweekly wrapper: the base flow is invoked at most max_retries
\* times; on an even ISO week it is not invoked and the status is skipped;
\* the status is failed only after max_retries attempts, the last of which
\* raised; and the status is success only when the invocation that returned
\* fetched the target number of new papers.
C33_WrapperStatus ==
    /\ biweekly.attempt <= biweekly_max_retries
    /\ run = biweekly.attempt
    /\ ~is_biweekly_run(biweekly.week_number) =>
          biweekly.attempt = 0 /\ biweekly.status \in {"none", "skipped"}
    /\ biweekly.status = "skipped" => ~is_biweekly_run(biweekly.week_number)
    /\ biweekly.status = "failed" =>
          biweekly.attempt = biweekly_max_retries /\ outcome = "raised"
    /\ biweekly.status = "success" =>
          outcome = "returned" /\ Len(new_pmids) = BiweeklyTarget

====
